---- MODULE Spec2Model ----
(***************************************************************************)
(* Model of the resume builder's document exporter (PDFGenerator) and of   *)
(* the pure helpers it closes over: cleanText, isValidEmail, isValidName,  *)
(* validateReference, formatDate, isValidSkill and checkPageBreak.         *)
(*                                                                         *)
(* Text is a sequence of characters.  A printable ASCII character is the   *)
(* one-character string itself; any other code point is written "U+XXXX". *)
(* A value that is not a string (undefined, null, a number) is one of the  *)
(* reserved one-element sequences Undefined, Null and NumberValue.         *)
(* Lengths are in half millimetres, so that every cursor increment of the  *)
(* source (3.5, 4.5, fontSize * 0.5, ...) is an integer.                    *)
(***************************************************************************)
EXTENDS Integers, Sequences, FiniteSets, TLC

VARIABLES
    builder,     \* the builder page and its forms: [apiKey, toast, flags, ...]
    world,       \* what is outside the page: [stored, requests, pending, now]
    call,        \* the last helper invoked in isolation: [fn, arg, res]
    env,         \* the environment of a run: [tz] (hours east of UTC)
    resumeData,  \* the document handed to generateTextPDF
    jobDescription, \* the job description handed to generateTextPDF
    pc,          \* the position of generateTextPDF in its body
    lay,         \* the layout state: yPosition, pages, the draw log, ...
    outcome      \* how the run ended: "running", "saved", "returned", "rejected"

vars == <<builder, world, call, env, resumeData, jobDescription, pc, lay, outcome>>

-----------------------------------------------------------------------------
(* Bounds of the model.                                                    *)

MaxTextLen == 3

-----------------------------------------------------------------------------
(* Characters.                                                             *)

Undefined == <<"#undefined">>
Null == <<"#null">>
NumberValue == <<"#number">>

NonStrings == {Undefined, Null, NumberValue}

IsString(v) == v \notin NonStrings

\* JavaScript truthiness of a string-or-missing value.
Truthy(v) == IsString(v) /\ v # <<>>

\* A truthy value that is not a string (an object, a non-zero number): it
\* has no trim method, so `value && value.trim()` throws a TypeError.  It is
\* handled where it is read and never reaches the operators on text.
TruthyNonString == <<"#object">>

UpperSeq == <<"A","B","C","D","E","F","G","H","I","J","K","L","M",
              "N","O","P","Q","R","S","T","U","V","W","X","Y","Z">>
LowerSeq == <<"a","b","c","d","e","f","g","h","i","j","k","l","m",
              "n","o","p","q","r","s","t","u","v","w","x","y","z">>
DigitSeq == <<"0","1","2","3","4","5","6","7","8","9">>

Range(s) == {s[i] : i \in DOMAIN s}

UpperSet == Range(UpperSeq)
LowerSet == Range(LowerSeq)
DigitSet == Range(DigitSeq)
LetterSet == UpperSet \cup LowerSet

\* Space and ASCII punctuation (the double quote, the backslash and the grave
\* accent are left out of the alphabet).
PunctSet == {" ", "!", "#", "$", "%", "&", "'", "(", ")", "*", "+", ",",
             "-", ".", "/", ":", ";", "<", "=", ">", "?", "@", "[", "]",
             "^", "_", "{", "|", "}", "~"}

\* The class [\x20-\x7E].
PrintableAscii == LetterSet \cup DigitSet \cup PunctSet

\* The class of hyphen and bullet glyphs: hyphen-minus, U+2022, U+00B7,
\* U+2023, U+25AA, U+25AB, U+25B8, U+25B6, U+25CF.
BulletDashSet == {"-", "U+2022", "U+00B7", "U+2023", "U+25AA", "U+25AB",
                  "U+25B8", "U+25B6", "U+25CF"}

\* The class [\x00-\x1F\x7F], as far as the alphabet has it.
ControlSet == {"U+0009", "U+000A", "U+000D", "U+007F"}

\* The class \s of a JavaScript regular expression (and what trim removes).
WhiteSpace == {" ", "U+0009", "U+000A", "U+000B", "U+000C", "U+000D",
               "U+00A0", "U+2028", "U+2029", "U+FEFF"}

IndexOf(s, c) == CHOOSE i \in DOMAIN s : s[i] = c

toUpperChar(c) == IF c \in LowerSet THEN UpperSeq[IndexOf(LowerSeq, c)] ELSE c
toLowerChar(c) == IF c \in UpperSet THEN LowerSeq[IndexOf(UpperSeq, c)] ELSE c

toLowerCase(s) == [i \in DOMAIN s |-> toLowerChar(s[i])]
toUpperCase(s) == [i \in DOMAIN s |-> toUpperChar(s[i])]

\* Compatibility decomposition of one code point (String.prototype.normalize).
NFKDChar(c) ==
    CASE c = "U+00E9" -> <<"e", "U+0301">>      \* e with acute
      [] c = "U+00A0" -> <<" ">>                \* no-break space
      [] c = "U+FF0D" -> <<"-">>                \* fullwidth hyphen-minus
      [] c = "U+FB01" -> <<"f", "i">>           \* ligature fi
      [] OTHER -> <<c>>

RECURSIVE normalizeNFKD(_)
normalizeNFKD(s) ==
    IF Len(s) = 0 THEN <<>>
    ELSE IF Len(s) = 1 THEN NFKDChar(s[1])
    ELSE LET h == Len(s) \div 2
         IN normalizeNFKD(SubSeq(s, 1, h)) \o normalizeNFKD(SubSeq(s, h + 1, Len(s)))

\* s.replace(/[class]/g, empty) for a character class given as a set.
RemoveChars(s, class) == SelectSeq(s, LAMBDA c : c \notin class)

\* s.replace(/[^class]/g, empty).
KeepChars(s, class) == SelectSeq(s, LAMBDA c : c \in class)

\* s.replace(/\s+/g, ' '): the first character of every run of whitespace
\* becomes a space and the rest of the run goes.
CollapseWhitespace(s) ==
    LET marked == [i \in DOMAIN s |->
                     IF s[i] \notin WhiteSpace THEN s[i]
                     ELSE IF i > 1 /\ s[i - 1] \in WhiteSpace THEN "#drop"
                     ELSE " "]
    IN SelectSeq(marked, LAMBDA c : c # "#drop")

trim(s) ==
    LET inked == {i \in DOMAIN s : s[i] \notin WhiteSpace}
    IN IF inked = {} THEN <<>>
       ELSE SubSeq(s, CHOOSE i \in inked : \A j \in inked : i <= j,
                      CHOOSE i \in inked : \A j \in inked : i >= j)

-----------------------------------------------------------------------------
(* cleanText, in the main exporter and in the earlier variant.             *)

cleanText_HyphenLast(text) ==
    IF ~Truthy(text) THEN <<>>
    ELSE RemoveChars(
           trim(CollapseWhitespace(
             RemoveChars(KeepChars(normalizeNFKD(text), PrintableAscii),
                         ControlSet))),
           BulletDashSet)

cleanText(text) ==
    IF ~Truthy(text) THEN <<>>
    ELSE trim(CollapseWhitespace(
           RemoveChars(
             RemoveChars(KeepChars(normalizeNFKD(text), PrintableAscii),
                         BulletDashSet),
             ControlSet)))

cleanText2_NoTrim(text) ==
    IF ~Truthy(text) THEN <<>>
    ELSE CollapseWhitespace(
           RemoveChars(KeepChars(text, PrintableAscii), BulletDashSet))

cleanText2(text) ==
    IF ~Truthy(text) THEN <<>>
    ELSE trim(CollapseWhitespace(
           RemoveChars(KeepChars(text, PrintableAscii), BulletDashSet)))

-----------------------------------------------------------------------------
(* The reference validators of the main exporter.                          *)

PlaceholderName == 
    <<"R","e","f","e","r","e","n","c","e"," ","N","a","m","e"," ">> \o
    <<"N","o","t"," ","P","r","o","v","i","d","e","d">>

\* /^[^\s@]+@[^\s@]+\.[^\s@]+$/.test(email)
isValidEmail(email) ==
    \E i \in DOMAIN email, j \in DOMAIN email :
        /\ email[i] = "@"
        /\ email[j] = "."
        /\ 1 < i /\ i + 1 < j /\ j < Len(email)
        /\ \A k \in DOMAIN email :
              k # i => email[k] \notin (WhiteSpace \cup {"@"})

isValidName(name) ==
    /\ Len(name) > 1
    /\ Len(name) < 100
    /\ \E i \in DOMAIN name : name[i] \in LetterSet

RawIfPresent(v) == v

\* if (ref.f) validatedRef.f = cleanText(ref.f)
CleanIfPresent(v) == IF Truthy(v) THEN cleanText(v) ELSE v

validateReference(ref) ==
    [ name         |-> IF ~Truthy(ref.name) \/ ~isValidName(cleanText(ref.name))
                       THEN PlaceholderName ELSE ref.name,
      email        |-> IF Truthy(ref.email) /\ ~isValidEmail(cleanText(ref.email))
                       THEN Undefined ELSE ref.email,
      title        |-> CleanIfPresent(ref.title),
      company      |-> CleanIfPresent(ref.company),
      relationship |-> CleanIfPresent(ref.relationship),
      phone        |-> CleanIfPresent(ref.phone) ]

-----------------------------------------------------------------------------
(* formatDate.  A Date is [valid, y, m, d]: a UTC calendar day at 00:00.   *)

PresentText == <<"P","r","e","s","e","n","t">>
presentLower == <<"p","r","e","s","e","n","t">>
InvalidDateText == <<"I","n","v","a","l","i","d"," ","D","a","t","e">>
DayOneSuffix == <<"-","0","1">>

MonthShort == << <<"J","a","n">>,
                <<"F","e","b">>,
                <<"M","a","r">>,
                <<"A","p","r">>,
                <<"M","a","y">>,
                <<"J","u","n">>,
                <<"J","u","l">>,
                <<"A","u","g">>,
                <<"S","e","p">>,
                <<"O","c","t">>,
                <<"N","o","v">>,
                <<"D","e","c">> >>

DigitValue(c) == IndexOf(DigitSeq, c) - 1

AllDigits(s) == \A i \in DOMAIN s : s[i] \in DigitSet

RECURSIVE DigitsToNat(_)
DigitsToNat(s) ==
    IF s = <<>> THEN 0
    ELSE 10 * DigitsToNat(SubSeq(s, 1, Len(s) - 1)) + DigitValue(s[Len(s)])

YearDigits(y) ==
    << DigitSeq[((y \div 1000) % 10) + 1], DigitSeq[((y \div 100) % 10) + 1],
       DigitSeq[((y \div 10) % 10) + 1], DigitSeq[(y % 10) + 1] >>

IsLeapYear(y) == (y % 4 = 0 /\ y % 100 # 0) \/ y % 400 = 0

DaysInMonth(y, m) ==
    IF m = 2 THEN (IF IsLeapYear(y) THEN 29 ELSE 28)
    ELSE IF m \in {4, 6, 9, 11} THEN 30 ELSE 31

InvalidDate == [valid |-> FALSE, y |-> 0, m |-> 0, d |-> 0]

\* new Date(s) for a date-only ISO string YYYY-MM-DD: midnight UTC of that
\* day, or an invalid Date; the constructor does not throw.  Strings of any
\* other shape are parsed in an implementation-defined way and are not
\* among the inputs of the model.
ParseIsoDate(s) ==
    IF /\ Len(s) = 10
       /\ s[5] = "-" /\ s[8] = "-"
       /\ AllDigits(SubSeq(s, 1, 4))
       /\ AllDigits(SubSeq(s, 6, 7))
       /\ AllDigits(SubSeq(s, 9, 10))
    THEN LET y == DigitsToNat(SubSeq(s, 1, 4))
             m == DigitsToNat(SubSeq(s, 6, 7))
             d == DigitsToNat(SubSeq(s, 9, 10))
         IN IF m \in 1..12 /\ d >= 1 /\ d <= DaysInMonth(y, m)
            THEN [valid |-> TRUE, y |-> y, m |-> m, d |-> d]
            ELSE InvalidDate
    ELSE InvalidDate

\* The calendar day of a UTC midnight as seen tz hours east of UTC
\* (-12 <= tz <= 14): west of Greenwich it is still the previous day.
LocalDay(date, tz) ==
    IF tz >= 0 THEN date
    ELSE IF date.d > 1 THEN [date EXCEPT !.d = date.d - 1]
    ELSE IF date.m > 1
         THEN [date EXCEPT !.m = date.m - 1,
                           !.d = DaysInMonth(date.y, date.m - 1)]
         ELSE [date EXCEPT !.y = date.y - 1, !.m = 12, !.d = 31]

\* date.toLocaleString('en-US', {month: 'short', year: 'numeric'}), which
\* formats in the local time zone; an invalid Date formats as "Invalid Date".
toLocaleMonthYear(date, tz) ==
    IF ~date.valid THEN InvalidDateText
    ELSE LET loc == LocalDay(date, tz)
         IN MonthShort[loc.m] \o <<" ">> \o YearDigits(loc.y)

formatDate(date, isEndDate, tz) ==
    IF ~Truthy(date) THEN (IF isEndDate THEN PresentText ELSE <<>>)
    ELSE IF toLowerCase(date) = presentLower THEN PresentText
    ELSE toLocaleMonthYear(ParseIsoDate(date \o DayOneSuffix), tz)

\* The earlier variant calls toLocaleDateString with the same options.
formatDate2(date, isEndDate, tz) ==
    IF ~Truthy(date) THEN (IF isEndDate THEN PresentText ELSE <<>>)
    ELSE IF toLowerCase(date) = presentLower THEN PresentText
    ELSE toLocaleMonthYear(ParseIsoDate(date \o DayOneSuffix), tz)

-----------------------------------------------------------------------------
(* Sorting.  Array.prototype.sort is stable: an insertion sort that keeps  *)
(* equal elements in their order.                                          *)

AsciiSeq == <<" ", "!", "#", "$", "%", "&", "'", "(", ")", "*", "+", ",", "-",
              ".", "/">> \o DigitSeq \o <<":", ";", "<", "=", ">", "?", "@">>
            \o UpperSeq \o <<"[", "]", "^", "_">> \o LowerSeq
            \o <<"{", "|", "}", "~">>

\* The order of UTF-16 code units, which the default sort compares: ASCII in
\* its own order, then every other code point of the alphabet.
CodeUnitRank(c) ==
    IF c \in PrintableAscii THEN 100 + IndexOf(AsciiSeq, c)
    ELSE IF c \in ControlSet THEN 1
    ELSE 1000

\* a.localeCompare(b, undefined, {sensitivity: 'base'}) < 0 on cleaned text:
\* space and punctuation before digits before letters, case ignored.
BaseRank(c) ==
    IF c \in LetterSet THEN 200 + IndexOf(LowerSeq, toLowerChar(c))
    ELSE IF c \in DigitSet THEN 100 + IndexOf(DigitSeq, c)
    ELSE IF c = " " THEN 1
    ELSE 2

\* The comparisons of the three sorts the exporters use:
\*   "code":   the default sort, by UTF-16 code units;
\*   "base":   a.localeCompare(b, undefined, {sensitivity: 'base'}) < 0;
\*   "locale": a.localeCompare(b) < 0, where strings equal up to case are
\*             ordered lower case first.
RECURSIVE LexLess(_, _, _)
LexLess(a, b, mode) ==
    IF b = <<>> THEN FALSE
    ELSE IF a = <<>> THEN TRUE
    ELSE LET ra == IF mode = "code" THEN CodeUnitRank(Head(a)) ELSE BaseRank(Head(a))
             rb == IF mode = "code" THEN CodeUnitRank(Head(b)) ELSE BaseRank(Head(b))
         IN IF ra < rb THEN TRUE
            ELSE IF ra > rb THEN FALSE
            ELSE LexLess(Tail(a), Tail(b), mode)

Less(a, b, mode) ==
    IF mode = "locale"
    THEN \/ LexLess(a, b, "base")
         \/ (~LexLess(b, a, "base") /\ LexLess(b, a, "code"))
    ELSE LexLess(a, b, mode)

RECURSIVE InsertSorted(_, _, _)
InsertSorted(sorted, x, mode) ==
    IF sorted = <<>> THEN <<x>>
    ELSE IF Less(x, Head(sorted), mode) THEN <<x>> \o sorted
    ELSE <<Head(sorted)>> \o InsertSorted(Tail(sorted), x, mode)

RECURSIVE SortBy(_, _)
SortBy(s, mode) ==
    IF s = <<>> THEN <<>>
    ELSE InsertSorted(SortBy(SubSeq(s, 1, Len(s) - 1), mode), s[Len(s)], mode)

-----------------------------------------------------------------------------
(* The skills filter of the main exporter.                                 *)

excludeWords == { <<"e","a","r","l","y">>,
                 <<"l","o","o","k","i","n","g">>,
                 <<"p","u","b","l","i","c">>,
                 <<"s","t","a","r","t">>,
                 <<"s","t","a","g","e">>,
                 <<"s","e","c","t","o","r">>,
                 <<"m","o","b","i","l","i","t","y">>,
                 <<"t","r","a","n","s","p","o","r","t","a","t","i","o","n">>,
                 <<"r","e","v","o","l","u","t","i","o","n","i","z","e">>,
                 <<"p","r","o","d","u","c","t","i","o","n">> }

osNames == { <<"l","i","n","u","x">>,
            <<"w","i","n","d","o","w","s">>,
            <<"m","a","c">> }
techNames == { <<"s","q","l">>,
              <<"p","y","t","h","o","n">>,
              <<"j","a","v","a">>,
              <<"j","a","v","a","s","c","r","i","p","t">>,
              <<"h","t","m","l">>,
              <<"c","s","s">> }
cadLower == <<"c","a","d">>

\* pattern.test(s) for a case-insensitive alternation of literal words.
ContainsAnyIgnoreCase(s, words) ==
    \E w \in words : \E i \in 1..(Len(s) - Len(w) + 1) :
        toLowerCase(SubSeq(s, i, i + Len(w) - 1)) = w

\* /^[A-Z]{2,}$/
MatchesAllCaps(s) == Len(s) >= 2 /\ \A i \in DOMAIN s : s[i] \in UpperSet

\* /CAD$/i
MatchesCadSuffix(s) ==
    Len(s) >= 3 /\ toLowerCase(SubSeq(s, Len(s) - 2, Len(s))) = cadLower

\* /^[A-Z][a-z]+[A-Z]/
MatchesInnerCapital(s) ==
    /\ Len(s) >= 3
    /\ s[1] \in UpperSet
    /\ \E k \in 3..Len(s) :
          /\ s[k] \in UpperSet
          /\ \A j \in 2..(k - 1) : s[j] \in LowerSet

isValidSkill_MinFour(skill) ==
    LET cleanSkill == trim(skill)
    IN IF Len(cleanSkill) <= 3 THEN FALSE
       ELSE IF toLowerCase(cleanSkill) \in excludeWords THEN FALSE
       ELSE \/ MatchesAllCaps(cleanSkill) \/ MatchesCadSuffix(cleanSkill)
            \/ MatchesInnerCapital(cleanSkill)
            \/ ContainsAnyIgnoreCase(cleanSkill, osNames)
            \/ ContainsAnyIgnoreCase(cleanSkill, techNames)
            \/ cleanSkill[1] \in UpperSet
            \/ Len(cleanSkill) > 4

isValidSkill(skill) ==
    LET cleanSkill == trim(skill)
    IN IF Len(cleanSkill) < 3 THEN FALSE
       ELSE IF toLowerCase(cleanSkill) \in excludeWords THEN FALSE
       ELSE LET isTechnical ==
                    \/ MatchesAllCaps(cleanSkill)
                    \/ MatchesCadSuffix(cleanSkill)
                    \/ MatchesInnerCapital(cleanSkill)
                    \/ ContainsAnyIgnoreCase(cleanSkill, osNames)
                    \/ ContainsAnyIgnoreCase(cleanSkill, techNames)
                isCapitalized == cleanSkill[1] \in UpperSet
            IN isTechnical \/ isCapitalized \/ Len(cleanSkill) > 4

\* A skill item is [obj, name, level, category]: a plain string has obj FALSE
\* and its text in name; a record has obj TRUE.  The keys skill and title
\* that the exporter also tries are absent from the records of the builder.
SkillName(skill) ==
    IF skill.obj THEN (IF Truthy(skill.name) THEN skill.name ELSE <<>>)
    ELSE (IF Truthy(skill.name) THEN skill.name ELSE <<>>)

MapSeq(s, F(_)) == [i \in DOMAIN s |-> F(s[i])]

capitalizeFirst(s) ==
    IF s = <<>> THEN <<>> ELSE <<toUpperChar(s[1])>> \o Tail(s)

skillsArray(skills) ==
    SortBy(
      MapSeq(
        SelectSeq(MapSeq(MapSeq(skills, SkillName), cleanText),
                  LAMBDA t : t # <<>> /\ isValidSkill(t)),
        capitalizeFirst),
      "base")

-----------------------------------------------------------------------------
(* The flow engine.  Lengths are in half millimetres: an A4 page is        *)
(* 210 x 297 mm, the margin 15 mm, the bottom reserve 20 mm.               *)

PageWidth == 420
PageHeight == 594
Margin == 30
BottomReserve == 40

\* The layout state of one run: the cursor, the number of pages, and two
\* records of what happened: log, the draw calls, page-break checks and
\* cursor assignments in order, and fresh, whether checkPageBreak has run
\* since the cursor last moved.
NewLayout ==
    [yPosition |-> Margin, pages |-> 1, fresh |-> TRUE, log |-> <<>>]

checkPageBreak_AtOrBeyond(L, requiredSpace) ==
    IF L.yPosition + requiredSpace >= PageHeight - BottomReserve
    THEN [ret |-> TRUE,
          lay |-> [L EXCEPT !.pages = @ + 1, !.yPosition = Margin]]
    ELSE [ret |-> FALSE, lay |-> L]

checkPageBreak(L, requiredSpace) ==
    IF L.yPosition + requiredSpace > PageHeight - BottomReserve
    THEN [ret |-> TRUE,
          lay |-> [L EXCEPT !.pages = @ + 1, !.yPosition = Margin]]
    ELSE [ret |-> FALSE, lay |-> L]

checkPageBreak2(L, requiredSpace) ==
    IF L.yPosition + requiredSpace > PageHeight - BottomReserve
    THEN [ret |-> TRUE,
          lay |-> [L EXCEPT !.pages = @ + 1, !.yPosition = Margin]]
    ELSE [ret |-> FALSE, lay |-> L]

-----------------------------------------------------------------------------
(* What the exporter asks of the document library (jsPDF).                 *)

\* pdf.getTextWidth for n characters at a font size given in half points:
\* a character of the Times face is taken to be half an em wide.
WidthOf(n, fontSize2) == (n * fontSize2) \div 6

TextWidth(text, fontSize2) == WidthOf(Len(text), fontSize2)

SortedIndices(S) ==
    [k \in 1..Cardinality(S) |->
        CHOOSE i \in S : Cardinality({j \in S : j < i}) = k - 1]

\* s.split(sep) for a separator that is one character of the set seps.
Split(s, seps) ==
    LET at == SortedIndices({i \in DOMAIN s : s[i] \in seps})
        cut == <<0>> \o at \o <<Len(s) + 1>>
    IN [k \in 1..(Len(at) + 1) |-> SubSeq(s, cut[k] + 1, cut[k + 1] - 1)]

\* The greedy word wrap of splitTextToSize on one paragraph: a word goes on
\* the current line while the line stays within maxWidth.  (Each step tests
\* the line built so far, which also makes TLC evaluate it before the next.)
RECURSIVE WrapWords(_, _, _, _, _, _)
WrapWords(words, i, cur, lines, maxWidth, fontSize2) ==
    IF i > Len(words) THEN Append(lines, cur)
    ELSE LET joined == IF i = 1 THEN words[i] ELSE cur \o <<" ">> \o words[i]
         IN IF i = 1 \/ TextWidth(joined, fontSize2) <= maxWidth
            THEN WrapWords(words, i + 1, joined, lines, maxWidth, fontSize2)
            ELSE IF Len(lines) >= 0
                 THEN WrapWords(words, i + 1, words[i], Append(lines, cur),
                                maxWidth, fontSize2)
                 ELSE lines

\* pdf.splitTextToSize(text, maxWidth): the lines of the text, never none.
splitTextToSize(text, maxWidth, fontSize2) ==
    WrapWords(Split(text, {" "}), 1, <<>>, <<>>, maxWidth, fontSize2)

BulletGlyph == <<"U+2022">>
BulletSeparator == <<" ", "U+2022", " ">>

\* pieces.join(sep)
RECURSIVE Join(_, _)
Join(pieces, sep) ==
    IF pieces = <<>> THEN <<>>
    ELSE IF Len(pieces) = 1 THEN pieces[1]
    ELSE pieces[1] \o sep \o Join(Tail(pieces), sep)

\* The user text inside a line of pieces joined by the bullet separator.
SeparatedPieces(line) ==
    [k \in DOMAIN Split(line, {"U+2022"}) |-> trim(Split(line, {"U+2022"})[k])]

Max(a, b) == IF a >= b THEN a ELSE b
Min(a, b) == IF a <= b THEN a ELSE b
CeilDiv(a, b) == (a + b - 1) \div b

-----------------------------------------------------------------------------
(* The drawing primitives of generateTextPDF, as steps on the layout.      *)

\* checkPageBreak(requiredSpace) as a statement; the call is logged.
Check(L, requiredSpace) ==
    LET c == checkPageBreak(L, requiredSpace)
    IN [c.lay EXCEPT
          !.fresh = TRUE,
          !.log = Append(@, [op |-> "check", kind |-> "checkPageBreak",
                             text |-> <<>>, user |-> <<>>, x |-> 0,
                             y |-> L.yPosition, page |-> c.lay.pages,
                             r |-> requiredSpace, fresh |-> TRUE,
                             ret |-> c.ret, to |-> c.lay.yPosition])]

\* pdf.text(text, x, y).  user holds the pieces of user-supplied text inside
\* text, as drawn; fresh tells whether y is the cursor and checkPageBreak has
\* run since the cursor last moved.
Text(L, kind, text, user, x, y) ==
    [L EXCEPT
       !.log = Append(@, [op |-> "text", kind |-> kind, text |-> text,
                          user |-> user, x |-> x, y |-> y, page |-> L.pages,
                          r |-> 0, fresh |-> (L.fresh /\ y = L.yPosition),
                          ret |-> FALSE, to |-> L.yPosition])]

TextAtCursor(L, kind, text, user, x) == Text(L, kind, text, user, x, L.yPosition)

\* An assignment to yPosition outside checkPageBreak; it is logged with the
\* cursor before (y) and after (to).
SetCursor(L, y) ==
    [L EXCEPT
       !.yPosition = y,
       !.fresh = FALSE,
       !.log = Append(@, [op |-> "move", kind |-> "yPosition", text |-> <<>>,
                          user |-> <<>>, x |-> 0, y |-> L.yPosition,
                          page |-> L.pages, r |-> 0, fresh |-> FALSE,
                          ret |-> FALSE, to |-> y])]

\* yPosition += d
Advance(L, d) == SetCursor(L, L.yPosition + d)

\* The resumeData argument when it is missing (null or undefined).
NoResume == [missing |-> TRUE]

InvalidResumeData == "Invalid resume data provided"
TypeErrorNoTrim == "TypeError: trim is not a function"

\* An error thrown inside the try block: the rest of the body is skipped.
Throw(L, error) ==
    [L EXCEPT
       !.log = Append(@, [op |-> "throw", kind |-> error, text |-> <<>>,
                          user |-> <<>>, x |-> 0, y |-> L.yPosition,
                          page |-> L.pages, r |-> 0, fresh |-> L.fresh,
                          ret |-> FALSE, to |-> L.yPosition])]

\* The body has thrown: the throw is the last event of the run.
HasThrown(L) == L.log # <<>> /\ L.log[Len(L.log)].op = "throw"

GenericError == "Failed to generate PDF. Please try again."

\* The catch clause with the original error thrown again.
catchError_Rethrow(error) == error

\* catch (error) { console.error(...); throw new Error(GenericError) }
catchError(error) == GenericError

addSectionHeader(L, title) ==
    LET L1 == Check(L, 24)
        L2 == TextAtCursor(L1, "sectionHeader", <<title>>, <<>>, Margin)
    IN Advance(Advance(L2, 6), 10)

RECURSIVE addTextLines(_, _, _, _, _)
addTextLines(L, lines, i, fontSize2, indent) ==
    IF i > Len(lines) THEN L
    ELSE LET L1 == Check(L, fontSize2 \div 2)
             L2 == TextAtCursor(L1, "paragraph", lines[i], <<lines[i]>>,
                                Margin + indent)
             L3 == Advance(L2, fontSize2 \div 2)
         IN IF L3.pages > 0
            THEN addTextLines(L3, lines, i + 1, fontSize2, indent)
            ELSE L3

addText(L, text, fontSize2, indent) ==
    IF ~Truthy(text) THEN L
    ELSE LET maxWidth == PageWidth - 2 * Margin - indent
             lines == splitTextToSize(cleanText(text), maxWidth, fontSize2)
         IN Advance(addTextLines(L, lines, 1, fontSize2, indent), 2)

\* bullet.replace(/^[-, bullets, \s]*/, empty)
StripLeadingBullets(s) ==
    LET keep == {i \in DOMAIN s : s[i] \notin (BulletDashSet \cup WhiteSpace)}
    IN IF keep = {} THEN <<>>
       ELSE SubSeq(s, CHOOSE i \in keep : \A j \in keep : i <= j, Len(s))

\* The continuation lines of one bullet (j = 1 .. length - 1 in the source).
RECURSIVE bulletContinuation(_, _, _, _)
bulletContinuation(L, wrappedLines, j, x) ==
    IF j > Len(wrappedLines) THEN L
    ELSE LET L1 == Check(L, 8)
             L2 == TextAtCursor(L1, "bulletLine", wrappedLines[j],
                                <<wrappedLines[j]>>, x)
             L3 == Advance(L2, 8)
         IN IF L3.pages > 0
            THEN bulletContinuation(L3, wrappedLines, j + 1, x)
            ELSE L3

\* One pass of the loop over the bullets of addBulletPoints.
addBullet(L, bullet, indent, showBullets) ==
    LET L1 == Check(L, 10)
        cleanBullet == trim(StripLeadingBullets(bullet))
    IN IF showBullets /\ cleanBullet # <<>>
       THEN LET L2 == TextAtCursor(L1, "bulletGlyph", BulletGlyph, <<>>,
                                   Margin + indent)
                maxWidth == PageWidth - 2 * Margin - indent - 8
                wrappedLines == splitTextToSize(cleanBullet, maxWidth, 18)
                L3 == TextAtCursor(L2, "bulletLine", wrappedLines[1],
                                   <<wrappedLines[1]>>, Margin + indent + 8)
            IN bulletContinuation(Advance(L3, 8), wrappedLines, 2,
                                  Margin + indent + 8)
       ELSE IF cleanBullet # <<>>
       THEN bulletContinuation(
              L1, splitTextToSize(cleanBullet, PageWidth - 2 * Margin - indent, 18),
              1, Margin + indent)
       ELSE L1

RECURSIVE addBulletLoop(_, _, _, _, _)
addBulletLoop(L, bullets, i, indent, showBullets) ==
    IF i > Len(bullets) THEN L
    ELSE LET L1 == addBullet(L, bullets[i], indent, showBullets)
         IN IF L1.pages > 0
            THEN addBulletLoop(L1, bullets, i + 1, indent, showBullets)
            ELSE L1

addBulletPoints(L, text, indent, showBullets) ==
    IF ~Truthy(text) THEN L
    ELSE LET bullets == SelectSeq(MapSeq(Split(text, {"U+000A"}), trim),
                                  LAMBDA line : Len(line) > 0)
         IN addBulletLoop(L, bullets, 1, indent, showBullets)

-----------------------------------------------------------------------------
(* The sections of generateTextPDF (main exporter).  A literal of the      *)
(* program inside a drawn string is one element of the text, such as       *)
(* "GPA: "; widths count its characters.                                   *)

maxChunkLength == 500

\* Chunks that start one character early: not what the loop does.
atsChunks_Overlap(fullJobDescription) ==
    [k \in 1..CeilDiv(Len(fullJobDescription), maxChunkLength) |->
        SubSeq(fullJobDescription, Max((k - 1) * maxChunkLength, 1),
               Min(k * maxChunkLength, Len(fullJobDescription)))]

\* The chunks of the cleaned job description.
atsChunks(fullJobDescription) ==
    [k \in 1..CeilDiv(Len(fullJobDescription), maxChunkLength) |->
        SubSeq(fullJobDescription, (k - 1) * maxChunkLength + 1,
               Min(k * maxChunkLength, Len(fullJobDescription)))]

RECURSIVE drawChunks(_, _, _)
drawChunks(L, chunks, k) ==
    IF k > Len(chunks) THEN L
    ELSE LET L1 == Text(L, "ats", chunks[k], <<chunks[k]>>,
                        Margin + ((k - 1) % 3) * 100,
                        Margin + 10 + (k - 1) * 4)
         IN IF L1.pages > 0 THEN drawChunks(L1, chunks, k + 1) ELSE L1

embedJobDescription(L, jd) ==
    IF jd = TruthyNonString THEN Throw(L, TypeErrorNoTrim)
    ELSE IF Truthy(jd) /\ trim(jd) # <<>>
    THEN drawChunks(L, atsChunks(cleanText(jd)), 1)
    ELSE L

\* The truthy ones among fields, cleaned.
CleanedPresent(fields) ==
    MapSeq(SelectSeq(fields, Truthy), cleanText)

\* value || fallback, cleaned: the text drawn and the user text inside it.
CleanOr(value, fallback) ==
    IF Truthy(value)
    THEN [text |-> cleanText(value), user |-> <<cleanText(value)>>]
    ELSE [text |-> <<fallback>>, user |-> <<>>]

headerSection(L, personal) ==
    IF ~Truthy(personal.fullName) THEN L
    ELSE LET nameText == cleanText(personal.fullName)
             nameX == (PageWidth - TextWidth(nameText, 52)) \div 2
             L1 == Advance(Advance(
                     TextAtCursor(L, "name", nameText, <<nameText>>, nameX),
                     20), 12)
             contactInfo == CleanedPresent(
                 <<personal.email, personal.phone, personal.location>>)
             contactText == Join(contactInfo, BulletSeparator)
             contactX == (PageWidth - TextWidth(contactText, 20)) \div 2
             L2 == IF Len(contactInfo) > 0
                   THEN Advance(TextAtCursor(L1, "contact", contactText,
                                             contactInfo, contactX), 8)
                   ELSE L1
         IN Advance(L2, 10)

summarySection(L, personal) ==
    IF ~Truthy(personal.summary) THEN L
    ELSE Advance(addText(addSectionHeader(L, "EXECUTIVE SUMMARY"),
                         personal.summary, 20, 12), 6)

\* `${startDate} - ${endDate}` with an en dash, and its width at a size.
DateRange(startDate, endDate, tz) ==
    formatDate(startDate, FALSE, tz) \o <<" ", "U+2013", " ">>
        \o formatDate(endDate, TRUE, tz)

\* startDate ? `${startDate} - ${endDate}` : endDate
DateRangeOrEnd(startDate, endDate, tz) ==
    IF formatDate(startDate, FALSE, tz) # <<>>
    THEN DateRange(startDate, endDate, tz)
    ELSE formatDate(endDate, TRUE, tz)

\* pdf.text of a CleanOr piece at the cursor.
DrawPiece(L, kind, piece, x) == TextAtCursor(L, kind, piece.text, piece.user, x)

\* pdf.text(dateInfo, pageWidth - margin - getTextWidth(dateInfo), yPosition)
DrawRightAligned(L, kind, text, fontSize2) ==
    TextAtCursor(L, kind, text, <<>>,
                 PageWidth - Margin - TextWidth(text, fontSize2))

\* `${label}${cleanText(value)}` drawn at the margin.
DrawLabelled(L, kind, label, cleaned) ==
    TextAtCursor(L, kind, <<label>> \o cleaned, <<cleaned>>, Margin)

expDates(L, exp, tz) ==
    IF Truthy(exp.startDate) \/ Truthy(exp.endDate)
    THEN DrawRightAligned(L, "exp.dates",
                          DateRange(exp.startDate, exp.endDate, tz), 20)
    ELSE L

expLocation(L, exp) ==
    IF Truthy(exp.location)
    THEN Advance(DrawPiece(L, "exp.location", CleanOr(exp.location, ""),
                           Margin), 6)
    ELSE L

expDescription(L, exp) ==
    IF Truthy(exp.description)
    THEN addBulletPoints(L, exp.description, 12, TRUE)
    ELSE L

\* One pass of the loop over resumeData.experience.
experienceRecord(L, exp, isLast, tz) ==
    Advance(
      expDescription(
        Advance(
          expLocation(
            Advance(
              expDates(
                DrawPiece(
                  Advance(DrawPiece(Check(L, 40), "exp.position",
                                    CleanOr(exp.position, "Position"), Margin),
                          10),
                  "exp.company", CleanOr(exp.company, "Company"), Margin),
                exp, tz),
              8),
            exp),
          8),
        exp),
      IF isLast THEN 4 ELSE 8)

RECURSIVE experienceLoop(_, _, _, _)
experienceLoop(L, experience, i, tz) ==
    IF i > Len(experience) THEN L
    ELSE LET L1 == experienceRecord(L, experience[i], i = Len(experience), tz)
         IN IF L1.pages > 0 THEN experienceLoop(L1, experience, i + 1, tz)
            ELSE L1

experienceSection(L, experience, tz) ==
    IF Len(experience) = 0 THEN L
    ELSE experienceLoop(addSectionHeader(L, "PROFESSIONAL EXPERIENCE"),
                        experience, 1, tz)

RECURSIVE descriptionLines(_, _, _)
descriptionLines(L, lines, i) ==
    IF i > Len(lines) THEN L
    ELSE LET L1 == Advance(TextAtCursor(Check(L, 8), "edu.description",
                                        lines[i], <<lines[i]>>, Margin + 8), 7)
         IN IF L1.pages > 0 THEN descriptionLines(L1, lines, i + 1) ELSE L1

\* The lines of one course in a column: drawn at the column's own cursor.
\* st is [lay, colY].
RECURSIVE courseLines(_, _, _, _)
courseLines(st, wrappedLines, j, x) ==
    IF j > Len(wrappedLines) THEN st
    ELSE LET L1 == Text(st.lay, "edu.course", wrappedLines[j],
                        <<IF j = 1 THEN SubSeq(wrappedLines[j], 3,
                                               Len(wrappedLines[j]))
                          ELSE wrappedLines[j]>>,
                        x, st.colY)
             st1 == [lay |-> L1,
                     colY |-> IF j < Len(wrappedLines) THEN st.colY + 6
                              ELSE st.colY]
         IN IF st1.colY >= 0 /\ L1.pages > 0
            THEN courseLines(st1, wrappedLines, j + 1, x)
            ELSE st1

RECURSIVE courseColumn(_, _, _, _, _)
courseColumn(st, courses, i, x, columnWidth) ==
    IF i > Len(courses) THEN st
    ELSE LET L1 == Check(st.lay, 10)
             wrappedLines == splitTextToSize(<<"U+2022", " ">> \o courses[i],
                                             columnWidth, 17)
             st1 == courseLines([lay |-> L1, colY |-> st.colY],
                                wrappedLines, 1, x)
             st2 == [st1 EXCEPT !.colY = @ + 8]
         IN IF st2.colY >= 0 /\ st2.lay.pages > 0
            THEN courseColumn(st2, courses, i + 1, x, columnWidth)
            ELSE st2

\* The two columns of courses, both starting at the cursor.
courseColumns(L, courses, courseIndent, columnWidth) ==
    [left |-> courseColumn([lay |-> L, colY |-> L.yPosition],
                           SubSeq(courses, 1, CeilDiv(Len(courses), 2)), 1,
                           courseIndent, columnWidth),
     y |-> L.yPosition]

courseColumnsRight(c, courses, courseIndent, columnWidth, columnGap) ==
    [left |-> c.left,
     right |-> courseColumn([lay |-> c.left.lay, colY |-> c.y],
                            SubSeq(courses, CeilDiv(Len(courses), 2) + 1,
                                   Len(courses)), 1,
                            courseIndent + columnWidth + columnGap, columnWidth)]

\* yPosition = Math.max(yPosition, column2Y) + 2
afterCourses(c) == SetCursor(c.right.lay, Max(c.left.colY, c.right.colY) + 4)

sortedCourses(coursesText) ==
    SortBy(SelectSeq(MapSeq(Split(coursesText, {","}), trim),
                     LAMBDA c : Len(c) > 0), "code")

coursesBlock(L, coursesText) ==
    afterCourses(
      courseColumnsRight(
        courseColumns(
          Advance(TextAtCursor(Advance(L, 6), "edu.coursesTitle",
                               <<"Relevant Coursework">>, <<>>, Margin), 12),
          sortedCourses(coursesText), Margin + 16,
          ((PageWidth - 2 * Margin - 32) \div 2) - 20),
        sortedCourses(coursesText), Margin + 16,
        ((PageWidth - 2 * Margin - 32) \div 2) - 20, 40))

eduDates(L, edu, tz) ==
    IF Truthy(edu.startDate) \/ Truthy(edu.endDate)
    THEN DrawRightAligned(L, "edu.dates",
                          DateRangeOrEnd(edu.startDate, edu.endDate, tz), 20)
    ELSE L

\* location, `GPA: ${gpa}` and honors, those present, in this order.
eduDetailTexts(edu) ==
    (IF Truthy(edu.location) THEN <<cleanText(edu.location)>> ELSE <<>>)
    \o (IF Truthy(edu.gpa) THEN <<<<"GPA: ">> \o cleanText(edu.gpa)>> ELSE <<>>)
    \o (IF Truthy(edu.honors) THEN <<cleanText(edu.honors)>> ELSE <<>>)

eduDetails(L, edu) ==
    IF Truthy(edu.location) \/ Truthy(edu.gpa) \/ Truthy(edu.honors)
    THEN Advance(TextAtCursor(
           L, "edu.details", Join(eduDetailTexts(edu), BulletSeparator),
           CleanedPresent(<<edu.location, edu.gpa, edu.honors>>), Margin), 10)
    ELSE L

eduDescription(L, edu) ==
    IF Truthy(edu.description)
    THEN Advance(descriptionLines(
           Advance(L, 2),
           splitTextToSize(cleanText(edu.description),
                           PageWidth - 2 * Margin - 16, 18), 1), 4)
    ELSE L

eduCourses(L, edu) ==
    IF Truthy(edu.courses) THEN coursesBlock(L, edu.courses) ELSE L

eduSeparator(L, isLast) ==
    IF isLast THEN Advance(L, 16) ELSE Advance(Advance(L, 8), 12)

\* One pass of the loop over resumeData.education.
educationRecord(L, edu, isLast, tz) ==
    eduSeparator(
      eduCourses(
        eduDescription(
          eduDetails(
            Advance(
              DrawPiece(
                Advance(
                  eduDates(DrawPiece(Check(L, 50), "edu.degree",
                                     CleanOr(edu.degree, "Degree"), Margin),
                           edu, tz),
                  12),
                "edu.school", CleanOr(edu.school, "School"), Margin),
              10),
            edu),
          edu),
        edu),
      isLast)

RECURSIVE educationLoop(_, _, _, _)
educationLoop(L, education, i, tz) ==
    IF i > Len(education) THEN L
    ELSE LET L1 == educationRecord(L, education[i], i = Len(education), tz)
         IN IF L1.pages > 0 THEN educationLoop(L1, education, i + 1, tz)
            ELSE L1

educationSection(L, education, tz) ==
    IF Len(education) = 0 THEN L
    ELSE educationLoop(addSectionHeader(L, "EDUCATION"), education, 1, tz)

RECURSIVE skillColumn(_, _, _, _)
skillColumn(L, skills, i, x) ==
    IF i > Len(skills) THEN L
    ELSE LET L1 == Advance(TextAtCursor(Check(L, 9), "skill",
                                        <<"U+2022", " ">> \o skills[i],
                                        <<skills[i]>>, x), 9)
         IN IF L1.pages > 0 THEN skillColumn(L1, skills, i + 1, x) ELSE L1

\* The columns split at the floor of the half: not what the code does.
renderSkillsInColumns_Floor(L, skills) ==
    LET midpoint == Len(skills) \div 2
        leftColumn == SubSeq(skills, 1, midpoint)
        rightColumn == SubSeq(skills, midpoint + 1, Len(skills))
        maxWidth == PageWidth - 2 * Margin - 12
        leftX == Margin + 12
        rightX == Margin + 12 + (maxWidth \div 2) + 40
        startY == L.yPosition
        L1 == skillColumn(L, leftColumn, 1, leftX)
        L2 == skillColumn(SetCursor(L1, startY), rightColumn, 1, rightX)
    IN SetCursor(L2, startY + Max(Len(leftColumn), Len(rightColumn)) * 9)

renderSkillsInColumns(L, skills) ==
    LET midpoint == CeilDiv(Len(skills), 2)
        leftColumn == SubSeq(skills, 1, midpoint)
        rightColumn == SubSeq(skills, midpoint + 1, Len(skills))
        maxWidth == PageWidth - 2 * Margin - 12
        leftX == Margin + 12
        rightX == Margin + 12 + (maxWidth \div 2) + 40
        startY == L.yPosition
        L1 == skillColumn(L, leftColumn, 1, leftX)
        L2 == skillColumn(SetCursor(L1, startY), rightColumn, 1, rightX)
    IN SetCursor(L2, startY + Max(Len(leftColumn), Len(rightColumn)) * 9)

RECURSIVE skillLines(_, _, _)
skillLines(L, lines, i) ==
    IF i > Len(lines) THEN L
    ELSE LET L1 == IF trim(lines[i]) # <<>>
                   THEN Advance(TextAtCursor(Check(L, 9), "skill", lines[i],
                                             SeparatedPieces(lines[i]),
                                             Margin + 12), 9)
                   ELSE L
         IN IF L1.pages > 0 THEN skillLines(L1, lines, i + 1) ELSE L1

renderSkillsHorizontally(L, skills) ==
    skillLines(L, splitTextToSize(Join(skills, BulletSeparator),
                                  PageWidth - 2 * Margin - 12, 20), 1)

minSkillsForColumns == 4

\* The skills section without its guards on the length of the array.
skillsSection_NoGuard(L, skills) ==
    Advance(renderSkillsHorizontally(
              addSectionHeader(L, "CORE COMPETENCIES & TECHNICAL SKILLS"),
              skillsArray(skills)), 8)

skillsSection(L, skills) ==
    IF Len(skills) = 0 THEN L
    ELSE LET arr == skillsArray(skills)
         IN IF Len(arr) = 0 THEN L
            ELSE LET L1 == addSectionHeader(
                             L, "CORE COMPETENCIES & TECHNICAL SKILLS")
                     L2 == IF Len(arr) >= minSkillsForColumns
                           THEN renderSkillsInColumns(L1, arr)
                           ELSE renderSkillsHorizontally(L1, arr)
                 IN Advance(L2, 8)

\* The technologies beside the dates when they fit, else on a line below.
projTechAfterDates(L, project, dateWidth, rightAlign) ==
    IF ~Truthy(project.technologies) THEN L
    ELSE IF rightAlign > Margin + dateWidth + 30
    THEN TextAtCursor(L, "project.tech",
                      <<"Tech: ">> \o cleanText(project.technologies),
                      <<cleanText(project.technologies)>>, rightAlign)
    ELSE DrawLabelled(Advance(L, 8), "project.tech", "Tech: ",
                      cleanText(project.technologies))

projDatesAndTech(L, project, tz) ==
    IF Truthy(project.startDate) \/ Truthy(project.endDate)
    THEN Advance(
           projTechAfterDates(
             TextAtCursor(L, "project.dates",
                          DateRange(project.startDate, project.endDate, tz),
                          <<>>, Margin),
             project,
             TextWidth(DateRange(project.startDate, project.endDate, tz), 18),
             PageWidth - Margin
               - WidthOf(6 + Len(cleanText(project.technologies)), 18)),
           8)
    ELSE IF Truthy(project.technologies)
    THEN Advance(DrawLabelled(L, "project.tech", "Technologies: ",
                              cleanText(project.technologies)), 8)
    ELSE L

projDescription(L, project) ==
    IF Truthy(project.description)
    THEN addBulletPoints(L, project.description, 12, TRUE)
    ELSE L

projLink(L, project) ==
    IF Truthy(project.link)
    THEN Advance(DrawLabelled(Advance(L, 2), "project.link", "Link: ",
                              cleanText(project.link)), 10)
    ELSE L

\* One pass of the loop over resumeData.projects.
projectRecord(L, project, isLast, tz) ==
    IF project.name = TruthyNonString THEN Throw(L, TypeErrorNoTrim)
    ELSE IF ~Truthy(project.name) \/ trim(project.name) = <<>> THEN L
    ELSE Advance(
           projLink(
             projDescription(
               Advance(
                 projDatesAndTech(
                   Advance(DrawPiece(Check(L, 50), "project.name",
                                     CleanOr(project.name, ""), Margin), 10),
                   project, tz),
                 8),
               project),
             project),
           IF isLast THEN 6 ELSE 12)

RECURSIVE projectLoop(_, _, _, _)
projectLoop(L, projects, i, tz) ==
    IF i > Len(projects) THEN L
    ELSE LET L1 == projectRecord(L, projects[i], i = Len(projects), tz)
         IN IF L1.pages > 0 /\ ~HasThrown(L1)
            THEN projectLoop(L1, projects, i + 1, tz)
            ELSE L1

projectsSection(L, projects, tz) ==
    IF Len(projects) = 0 THEN L
    ELSE projectLoop(addSectionHeader(L, " PROJECTS"), projects, 1, tz)

\* One optional line of a certification record, drawn without a check.
certLine(L, kind, label, value, advance) ==
    IF ~Truthy(value) THEN L
    ELSE Advance(DrawLabelled(L, kind, label, cleanText(value)), advance)

certIssuer(L, cert) ==
    IF Truthy(cert.issuer) \/ Truthy(cert.date)
    THEN Advance(TextAtCursor(
           L, "cert.issuer",
           <<"Issued by: ">>
             \o Join(CleanedPresent(<<cert.issuer, cert.date>>), BulletSeparator),
           CleanedPresent(<<cert.issuer, cert.date>>), Margin), 6)
    ELSE L

\* One pass of the loop over resumeData.certifications.
certificationRecord(L, cert, isLast) ==
    Advance(
      certLine(
        certLine(
          certLine(
            certIssuer(
              Advance(TextAtCursor(Check(L, 20), "cert.name",
                                   cleanText(cert.name),
                                   <<cleanText(cert.name)>>, Margin), 8),
              cert),
            "cert.expiration", "Expires: ", cert.expiration, 6),
          "cert.credentialId", "Credential ID: ", cert.credentialId, 6),
        "cert.verificationLink", "Verify: ", cert.verificationLink, 6),
      IF isLast THEN 4 ELSE 8)

RECURSIVE certificationLoop(_, _, _)
certificationLoop(L, certifications, i) ==
    IF i > Len(certifications) THEN L
    ELSE LET L1 == certificationRecord(L, certifications[i],
                                       i = Len(certifications))
         IN IF L1.pages > 0 THEN certificationLoop(L1, certifications, i + 1)
            ELSE L1

certificationsSection(L, certifications) ==
    IF Len(certifications) = 0 THEN L
    ELSE Advance(certificationLoop(addSectionHeader(L, " CERTIFICATIONS"),
                                   certifications, 1), 6)

\* `${lang.name} (${lang.proficiency})`
languageText(lang) == lang.name \o <<" ", "(">> \o lang.proficiency \o <<")">>

RECURSIVE InsertByName(_, _)
InsertByName(sorted, x) ==
    IF sorted = <<>> THEN <<x>>
    ELSE IF Less(x.name, Head(sorted).name, "locale") THEN <<x>> \o sorted
    ELSE <<Head(sorted)>> \o InsertByName(Tail(sorted), x)

RECURSIVE SortByName(_)
SortByName(s) ==
    IF s = <<>> THEN <<>>
    ELSE InsertByName(SortByName(SubSeq(s, 1, Len(s) - 1)), s[Len(s)])

cleanLanguages(languages) ==
    SortByName(SelectSeq(
        MapSeq(languages, LAMBDA lang : [name |-> cleanText(lang.language),
                                         proficiency |-> cleanText(lang.proficiency)]),
        LAMBDA lang : lang.name # <<>> /\ lang.proficiency # <<>>))

RECURSIVE languageList(_, _, _)
languageList(L, languages, i) ==
    IF i > Len(languages) THEN L
    ELSE LET L1 == Advance(TextAtCursor(
                     Check(L, 8), "language", languageText(languages[i]),
                     <<languages[i].name, languages[i].proficiency>>,
                     Margin + 12 + 8), 8)
         IN IF L1.pages > 0 THEN languageList(L1, languages, i + 1) ELSE L1

\* One column of the three-column block; st is [lay, colY].
RECURSIVE languageColumn(_, _, _, _, _, _)
languageColumn(st, columnLanguages, i, col, columnX, columnWidth) ==
    IF i > Len(columnLanguages) THEN st
    ELSE LET L1 == IF col = 0 THEN Check(st.lay, 8) ELSE st.lay
             lines == splitTextToSize(languageText(columnLanguages[i]),
                                      columnWidth - 12, 20)
             L2 == Text(L1, "language", lines[1],
                        <<columnLanguages[i].name,
                          columnLanguages[i].proficiency>>,
                        columnX + 8, st.colY)
             st1 == [lay |-> L2, colY |-> st.colY + 8]
         IN IF st1.colY >= 0 /\ L2.pages > 0
            THEN languageColumn(st1, columnLanguages, i + 1, col, columnX,
                                columnWidth)
            ELSE st1

\* The loop over the columns; st is [lay, maxColumnHeight].
RECURSIVE languageColumns(_, _, _, _, _)
languageColumns(st, languages, col, startY, columnWidth) ==
    IF col >= 3 THEN st
    ELSE LET itemsPerColumn == CeilDiv(Len(languages), 3)
             startIndex == col * itemsPerColumn
             endIndex == Min(startIndex + itemsPerColumn, Len(languages))
             columnLanguages == SubSeq(languages, startIndex + 1, endIndex)
             columnX == Margin + 12 + col * (columnWidth + 40)
             done == languageColumn([lay |-> st.lay, colY |-> startY],
                                    columnLanguages, 1, col, columnX,
                                    columnWidth)
             st1 == IF Len(columnLanguages) = 0 THEN st
                    ELSE [lay |-> done.lay,
                          maxColumnHeight |->
                              Max(st.maxColumnHeight, done.colY - startY)]
         IN IF st1.maxColumnHeight >= 0
            THEN languageColumns(st1, languages, col + 1, startY, columnWidth)
            ELSE st1

languagesSection(L, rawLanguages) ==
    IF Len(rawLanguages) = 0 THEN L
    ELSE LET L1 == addSectionHeader(L, "LANGUAGES")
             languages == cleanLanguages(rawLanguages)
             maxWidth == PageWidth - 2 * Margin - 12
             columnWidth == (maxWidth - 2 * 40) \div 3
             cols == languageColumns([lay |-> L1, maxColumnHeight |-> 0],
                                     languages, 0, L1.yPosition, columnWidth)
             L2 == IF Len(languages) <= 3 THEN languageList(L1, languages, 1)
                   ELSE SetCursor(cols.lay, L1.yPosition + cols.maxColumnHeight)
         IN Advance(L2, 6)

\* settings.layout is the literal 'left': the other alignments never run.
RECURSIVE interestLines(_, _, _)
interestLines(L, lines, i) ==
    IF i > Len(lines) THEN L
    ELSE LET L1 == Advance(TextAtCursor(Check(L, 8 + 4), "interests", lines[i],
                                        SeparatedPieces(lines[i]),
                                        Margin + 12), 8)
         IN IF L1.pages > 0 THEN interestLines(L1, lines, i + 1) ELSE L1

interestsSection(L, interests) ==
    IF Len(interests) = 0 THEN L
    ELSE LET L1 == addSectionHeader(L, " INTERESTS")
             cleanInterests ==
                 SortBy(MapSeq(SelectSeq(interests,
                                         LAMBDA t : Truthy(t) /\ trim(t) # <<>>),
                               cleanText), "code")
             lines == splitTextToSize(Join(cleanInterests, BulletSeparator),
                                      PageWidth - 2 * Margin - 12, 20)
         IN Advance(interestLines(L1, lines, 1), 10)

RECURSIVE contactLines(_, _, _, _)
contactLines(L, contactInfo, users, i) ==
    IF i > Len(contactInfo) THEN L
    ELSE contactLines(Advance(TextAtCursor(L, "ref.contact", contactInfo[i],
                                           <<users[i]>>, Margin), 6),
                      contactInfo, users, i + 1)

IsFilled(v) == Truthy(v) /\ trim(v) # <<>>

refTitle(L, titleCompany) ==
    IF Len(titleCompany) > 0
    THEN Advance(TextAtCursor(
           L, "ref.title",
           IF Len(titleCompany) = 2
           THEN titleCompany[1] \o <<" at ">> \o titleCompany[2]
           ELSE titleCompany[1],
           titleCompany, Margin), 10)
    ELSE L

refRelationship(L, ref) ==
    IF IsFilled(ref.relationship)
    THEN Advance(DrawLabelled(L, "ref.relationship", "Relationship: ",
                              cleanText(ref.relationship)), 8)
    ELSE L

\* The cleaned email and phone, those filled in.
refContactUsers(ref) ==
    CleanedPresent(<<IF IsFilled(ref.email) THEN ref.email ELSE Undefined,
                     IF IsFilled(ref.phone) THEN ref.phone ELSE Undefined>>)

\* `Email: ${...}` and `Phone: ${...}`, those filled in.
refContactInfo(ref) ==
    (IF IsFilled(ref.email) THEN <<<<"Email: ">> \o cleanText(ref.email)>>
     ELSE <<>>)
    \o (IF IsFilled(ref.phone) THEN <<<<"Phone: ">> \o cleanText(ref.phone)>>
        ELSE <<>>)

\* The width of the joined contact line: each label is one element of six
\* further characters, the separator one of four.
contactWidth(contactInfo) ==
    WidthOf(Len(Join(contactInfo, <<"  |  ">>)) + 6 * Len(contactInfo)
            + 4 * (Len(contactInfo) - 1), 18)

refContact(L, contactInfo, users) ==
    IF Len(contactInfo) = 0 THEN L
    ELSE IF contactWidth(contactInfo) > PageWidth - 2 * Margin
    THEN contactLines(L, contactInfo, users, 1)
    ELSE Advance(TextAtCursor(L, "ref.contact",
                              Join(contactInfo, <<"  |  ">>), users, Margin), 8)

refSeparator(L, isLast) ==
    IF isLast THEN Advance(L, 4) ELSE Advance(Advance(L, 4), 12)

validatedRecord(L, ref, isLast) ==
    refSeparator(
      refContact(
        refRelationship(
          refTitle(
            Advance(DrawPiece(Check(L, 50), "ref.name",
                              CleanOr(ref.name, "Reference Name Not Provided"),
                              Margin), 12),
            MapSeq(SelectSeq(<<ref.title, ref.company>>, IsFilled), cleanText)),
          ref),
        refContactInfo(ref), refContactUsers(ref)),
      isLast)

\* One pass of the loop over resumeData.references.
referenceRecord(L, rawRef, isLast) ==
    validatedRecord(L, validateReference(rawRef), isLast)

RECURSIVE referenceLoop(_, _, _)
referenceLoop(L, references, i) ==
    IF i > Len(references) THEN L
    ELSE LET L1 == referenceRecord(L, references[i], i = Len(references))
         IN IF L1.pages > 0 THEN referenceLoop(L1, references, i + 1) ELSE L1

referencesSection(L, references) ==
    IF Len(references) = 0 THEN L
    ELSE referenceLoop(addSectionHeader(L, " REFERENCES"), references, 1)

\* pdf.save(filename)
saveDocument(L) ==
    [L EXCEPT !.log = Append(@, [op |-> "save", kind |-> "save",
                                 text |-> <<>>, user |-> <<>>, x |-> 0,
                                 y |-> L.yPosition, page |-> L.pages, r |-> 0,
                                 fresh |-> L.fresh, ret |-> FALSE,
                                 to |-> L.yPosition])]

\* The blocks of the try body up to the projects, from the layout L.
throughProjects(L, rd, tz) ==
    IF HasThrown(L) THEN L
    ELSE projectsSection(
           skillsSection(
             educationSection(
               experienceSection(
                 summarySection(headerSection(L, rd.personal), rd.personal),
                 rd.experience, tz),
               rd.education, tz),
             rd.skills),
           rd.projects, tz)

\* The blocks after the projects, and pdf.save.
afterProjects(L, rd) ==
    IF HasThrown(L) THEN L
    ELSE saveDocument(
           referencesSection(
             interestsSection(
               languagesSection(
                 certificationsSection(L, rd.certifications),
                 rd.languages),
               rd.interests),
             rd.references))

\* generateTextPDF(resumeData, templateId, filename, jobDescription) as one
\* call: the layout it leaves, with the draw log.
generateTextPDF(rd, jd, tz) ==
    IF rd = NoResume THEN Throw(NewLayout, InvalidResumeData)
    ELSE afterProjects(
           throughProjects(embedJobDescription(NewLayout, jd), rd, tz), rd)

-----------------------------------------------------------------------------
(* The sections of generateTextPDF in the variant exporter.  Its           *)
(* checkPageBreak, addSectionHeader and addBulletPoints are those of the   *)
(* main exporter; its cleanText and formatDate are cleanText2 and          *)
(* formatDate2.                                                            *)

addText2(L, text, fontSize2, indent) ==
    IF ~Truthy(text) THEN L
    ELSE Advance(
           addTextLines(L, splitTextToSize(cleanText2(text),
                                           PageWidth - 2 * Margin - indent,
                                           fontSize2),
                        1, fontSize2, indent),
           2)

embedJobDescription2(L, jd) ==
    IF Truthy(jd) /\ trim(jd) # <<>>
    THEN drawChunks(L, atsChunks(cleanText2(jd)), 1)
    ELSE L

\* The truthy ones among fields, cleaned by the variant.
CleanedPresent2(fields) ==
    MapSeq(SelectSeq(fields, Truthy), cleanText2)

\* cleanText(value || fallback): the text drawn and the user text inside it.
CleanOr2(value, fallback) ==
    IF Truthy(value)
    THEN [text |-> cleanText2(value), user |-> <<cleanText2(value)>>]
    ELSE [text |-> <<fallback>>, user |-> <<>>]

\* if (value) { pdf.text(`${label}${cleanText(value)}`, margin, y); y += advance }
labelledLine2(L, kind, label, value, advance) ==
    IF ~Truthy(value) THEN L
    ELSE Advance(DrawLabelled(L, kind, label, cleanText2(value)), advance)

\* if (pieces.length > 0) { pdf.text(prefix + pieces.join(sep), x, y); y += advance }
joinedLine2(L, kind, prefix, pieces, sep, x, advance) ==
    IF Len(pieces) = 0 THEN L
    ELSE Advance(TextAtCursor(L, kind, prefix \o Join(pieces, sep), pieces, x),
                 advance)

\* lines.forEach(line => { checkPageBreak(4); pdf.text(line, margin + 6, y); y += 4 })
RECURSIVE flowLines2(_, _, _, _)
flowLines2(L, kind, lines, i) ==
    IF i > Len(lines) THEN L
    ELSE LET L1 == Advance(TextAtCursor(Check(L, 8), kind, lines[i],
                                        SeparatedPieces(lines[i]),
                                        Margin + 12), 8)
         IN IF L1.pages > 0 THEN flowLines2(L1, kind, lines, i + 1) ELSE L1

\* A sorted list joined by bullets, wrapped and drawn, then spacingAfter.
flowList2(L, kind, items) ==
    Advance(flowLines2(L, kind,
                       splitTextToSize(Join(SortBy(items, "code"),
                                            BulletSeparator),
                                       PageWidth - 2 * Margin - 12, 20),
                       1),
            6)

headerSection2(L, personal) ==
    IF ~Truthy(personal.fullName) THEN L
    ELSE Advance(
           joinedLine2(
             Advance(Advance(
               TextAtCursor(L, "name", cleanText2(personal.fullName),
                            <<cleanText2(personal.fullName)>>,
                            (PageWidth
                               - TextWidth(cleanText2(personal.fullName), 52))
                              \div 2),
               20), 12),
             "contact", <<>>,
             CleanedPresent2(<<personal.email, personal.phone,
                               personal.location>>),
             BulletSeparator,
             (PageWidth
                - TextWidth(Join(CleanedPresent2(<<personal.email,
                                                   personal.phone,
                                                   personal.location>>),
                                 BulletSeparator), 20)) \div 2,
             8),
           10)

summarySection2(L, personal) ==
    IF ~Truthy(personal.summary) THEN L
    ELSE Advance(addText2(addSectionHeader(L, "EXECUTIVE SUMMARY"),
                          personal.summary, 20, 12), 6)

\* `${startDate} - ${endDate}` with an en dash, dates as the variant formats them.
DateRange2(startDate, endDate, tz) ==
    formatDate2(startDate, FALSE, tz) \o <<" ", "U+2013", " ">>
        \o formatDate2(endDate, TRUE, tz)

\* The right-aligned dates of a record, when it has a start or an end date.
recordDates2(L, kind, rec, dateInfo, fontSize2) ==
    IF Truthy(rec.startDate) \/ Truthy(rec.endDate)
    THEN DrawRightAligned(L, kind, dateInfo, fontSize2)
    ELSE L

\* if (rec.description) addBulletPoints(rec.description, 6, true)
recordDescription2(L, rec) ==
    IF Truthy(rec.description)
    THEN addBulletPoints(L, rec.description, 12, TRUE)
    ELSE L

\* One pass of the loop over resumeData.experience.
experienceRecord2(L, exp, isLast, tz) ==
    Advance(
      recordDescription2(
        Advance(
          joinedLine2(
            Advance(
              recordDates2(
                DrawPiece(
                  Advance(DrawPiece(Check(L, 40), "exp.position",
                                    CleanOr2(exp.position, "Position"), Margin),
                          10),
                  "exp.company", CleanOr2(exp.company, "Company"), Margin),
                "exp.dates", exp,
                DateRange2(exp.startDate, exp.endDate, tz), 20),
              8),
            "exp.location", <<>>, CleanedPresent2(<<exp.location>>), <<>>,
            Margin, 6),
          8),
        exp),
      IF isLast THEN 4 ELSE 8)

RECURSIVE experienceLoop2(_, _, _, _)
experienceLoop2(L, experience, i, tz) ==
    IF i > Len(experience) THEN L
    ELSE LET L1 == experienceRecord2(L, experience[i], i = Len(experience), tz)
         IN IF L1.pages > 0 THEN experienceLoop2(L1, experience, i + 1, tz)
            ELSE L1

experienceSection2(L, experience, tz) ==
    IF Len(experience) = 0 THEN L
    ELSE experienceLoop2(addSectionHeader(L, "PROFESSIONAL EXPERIENCE"),
                         experience, 1, tz)

\* The location and the labelled GPA of an education record, as drawn.
locationGPA2(edu) ==
    CleanedPresent2(<<edu.location>>)
      \o (IF Truthy(edu.gpa) THEN <<<<"GPA: ">> \o cleanText2(edu.gpa)>>
          ELSE <<>>)

\* if (edu.description) { yPosition += 1; addBulletPoints(...); yPosition -= 1 }
eduDescription2(L, edu) ==
    IF Truthy(edu.description)
    THEN Advance(addBulletPoints(Advance(L, 2), edu.description, 12, TRUE),
                 0 - 2)
    ELSE L

\* One pass of the loop over resumeData.education.
educationRecord2(L, edu, isLast, tz) ==
    Advance(
      eduDescription2(
        joinedLine2(
          Advance(
            DrawPiece(
              Advance(
                recordDates2(
                  DrawPiece(Check(L, 24), "edu.degree",
                            CleanOr2(edu.degree, "Degree"), Margin),
                  "edu.dates", edu,
                  IF formatDate2(edu.startDate, FALSE, tz) # <<>>
                  THEN DateRange2(edu.startDate, edu.endDate, tz)
                  ELSE formatDate2(edu.endDate, TRUE, tz),
                  22),
                8),
              "edu.school", CleanOr2(edu.school, "School"), Margin),
            6),
          "edu.details", <<>>, locationGPA2(edu), BulletSeparator, Margin, 6),
        edu),
      IF isLast THEN 10 ELSE 6)

RECURSIVE educationLoop2(_, _, _, _)
educationLoop2(L, education, i, tz) ==
    IF i > Len(education) THEN L
    ELSE LET L1 == educationRecord2(L, education[i], i = Len(education), tz)
         IN IF L1.pages > 0 THEN educationLoop2(L1, education, i + 1, tz)
            ELSE L1

educationSection2(L, education, tz) ==
    IF Len(education) = 0 THEN L
    ELSE educationLoop2(addSectionHeader(L, "EDUCATION"), education, 1, tz)

\* typeof skill === 'object' && skill?.name ? skill.name : String(skill)
skillText2(skill) ==
    IF skill.obj
    THEN (IF Truthy(skill.name) THEN skill.name ELSE <<"[object Object]">>)
    ELSE (IF IsString(skill.name) THEN skill.name ELSE <<"undefined">>)

\* .map(...).filter(skill => skill?.trim())
skillsArray2(skills) ==
    SelectSeq(MapSeq(skills, skillText2), LAMBDA t : trim(t) # <<>>)

\* The skills block.  returned tells that the block executed `return`, which
\* ends generateTextPDF: the promise resolves and nothing after runs.
skillsSection2(L, skills) ==
    IF Len(skills) = 0 THEN [lay |-> L, returned |-> TRUE]
    ELSE IF Len(skillsArray2(skills)) = 0
    THEN [lay |-> addSectionHeader(L, "CORE COMPETENCIES & TECHNICAL SKILLS"),
          returned |-> TRUE]
    ELSE [lay |-> flowList2(
                    addSectionHeader(L, "CORE COMPETENCIES & TECHNICAL SKILLS"),
                    "skill", MapSeq(skillsArray2(skills), cleanText2)),
          returned |-> FALSE]

\* The technologies beside the dates when they fit, else on a line below.
projTechAfterDates2(L, project, dateWidth, rightAlign) ==
    IF ~Truthy(project.technologies) THEN L
    ELSE IF rightAlign > Margin + dateWidth + 30
    THEN TextAtCursor(L, "project.tech",
                      <<"Tech: ">> \o cleanText2(project.technologies),
                      <<cleanText2(project.technologies)>>, rightAlign)
    ELSE DrawLabelled(Advance(L, 8), "project.tech", "Tech: ",
                      cleanText2(project.technologies))

projDatesAndTech2(L, project, tz) ==
    IF Truthy(project.startDate) \/ Truthy(project.endDate)
    THEN Advance(
           projTechAfterDates2(
             TextAtCursor(L, "project.dates",
                          DateRange2(project.startDate, project.endDate, tz),
                          <<>>, Margin),
             project,
             TextWidth(DateRange2(project.startDate, project.endDate, tz), 18),
             PageWidth - Margin
               - WidthOf(6 + Len(cleanText2(project.technologies)), 18)),
           8)
    ELSE labelledLine2(L, "project.tech", "Technologies: ",
                       project.technologies, 8)

projLink2(L, project) ==
    IF Truthy(project.link)
    THEN labelledLine2(Advance(L, 2), "project.link", "Link: ", project.link, 10)
    ELSE L

\* One pass of the loop over resumeData.projects.
projectRecord2(L, project, isLast, tz) ==
    IF ~Truthy(project.name) \/ trim(project.name) = <<>> THEN L
    ELSE Advance(
           projLink2(
             recordDescription2(
               Advance(
                 projDatesAndTech2(
                   Advance(DrawPiece(Check(L, 50), "project.name",
                                     CleanOr2(project.name, ""), Margin), 10),
                   project, tz),
                 8),
               project),
             project),
           IF isLast THEN 6 ELSE 12)

RECURSIVE projectLoop2(_, _, _, _)
projectLoop2(L, projects, i, tz) ==
    IF i > Len(projects) THEN L
    ELSE LET L1 == projectRecord2(L, projects[i], i = Len(projects), tz)
         IN IF L1.pages > 0 THEN projectLoop2(L1, projects, i + 1, tz) ELSE L1

projectsSection2(L, projects, tz) ==
    IF Len(projects) = 0 THEN L
    ELSE projectLoop2(addSectionHeader(L, "NOTABLE PROJECTS"), projects, 1, tz)

\* One pass of the loop over resumeData.certifications.
certificationRecord2(L, cert, isLast) ==
    Advance(
      labelledLine2(
        labelledLine2(
          labelledLine2(
            joinedLine2(
              Advance(TextAtCursor(Check(L, 20), "cert.name",
                                   cleanText2(cert.name),
                                   <<cleanText2(cert.name)>>, Margin), 8),
              "cert.issuer", <<"Issued by: ">>,
              CleanedPresent2(<<cert.issuer, cert.date>>), BulletSeparator,
              Margin, 6),
            "cert.expiration", "Expires: ", cert.expiration, 6),
          "cert.credentialId", "Credential ID: ", cert.credentialId, 6),
        "cert.verificationLink", "Verify: ", cert.verificationLink, 6),
      IF isLast THEN 4 ELSE 8)

RECURSIVE certificationLoop2(_, _, _)
certificationLoop2(L, certifications, i) ==
    IF i > Len(certifications) THEN L
    ELSE LET L1 == certificationRecord2(L, certifications[i],
                                        i = Len(certifications))
         IN IF L1.pages > 0 THEN certificationLoop2(L1, certifications, i + 1)
            ELSE L1

certificationsSection2(L, certifications) ==
    IF Len(certifications) = 0 THEN L
    ELSE Advance(
           certificationLoop2(
             addSectionHeader(L, "PROFESSIONAL CERTIFICATIONS"),
             certifications, 1),
           6)

\* `${cleanText(lang.language)} (${cleanText(lang.proficiency)})`
languageText2(lang) ==
    cleanText2(lang.language) \o <<" ", "(">> \o cleanText2(lang.proficiency)
        \o <<")">>

languagesSection2(L, languages) ==
    IF Len(languages) = 0 THEN L
    ELSE flowList2(addSectionHeader(L, "LANGUAGES"), "language",
                   MapSeq(languages, languageText2))

interestsSection2(L, interests) ==
    IF Len(interests) = 0 THEN L
    ELSE flowList2(addSectionHeader(L, "PROFESSIONAL INTERESTS"), "interests",
                   MapSeq(SelectSeq(interests,
                                    LAMBDA t : Truthy(t) /\ trim(t) # <<>>),
                          cleanText2))

\* The contact line of a reference and the space after the record.
refContact2(L, ref, isLast) ==
    IF Len(CleanedPresent2(<<ref.email, ref.phone>>)) > 0
    THEN joinedLine2(L, "ref.contact", <<>>,
                     CleanedPresent2(<<ref.email, ref.phone>>),
                     BulletSeparator, Margin, IF isLast THEN 4 ELSE 8)
    ELSE Advance(L, IF isLast THEN 4 ELSE 6)

\* One pass of the loop over resumeData.references.
referenceRecord2(L, ref, isLast) ==
    refContact2(
      labelledLine2(
        joinedLine2(
          Advance(DrawPiece(Check(L, 40), "ref.name",
                            CleanOr2(ref.name, "Reference"), Margin), 10),
          "ref.title", <<>>, CleanedPresent2(<<ref.title, ref.company>>),
          <<" at ">>, Margin, 6),
        "ref.relationship", "Professional Relationship: ", ref.relationship, 6),
      ref, isLast)

RECURSIVE referenceLoop2(_, _, _)
referenceLoop2(L, references, i) ==
    IF i > Len(references) THEN L
    ELSE LET L1 == referenceRecord2(L, references[i], i = Len(references))
         IN IF L1.pages > 0 THEN referenceLoop2(L1, references, i + 1) ELSE L1

referencesSection2(L, references) ==
    IF Len(references) = 0 THEN L
    ELSE referenceLoop2(addSectionHeader(L, "PROFESSIONAL REFERENCES"),
                        references, 1)

-----------------------------------------------------------------------------
(* The helpers invoked in isolation, on inputs drawn from bounded sets: a   *)
(* behaviour of SpecFn is one invocation of one helper.                    *)

SeqsUpTo(S, n) == UNION {[1..k -> S] : k \in 0..n}

Rep(c, n) == [i \in 1..n |-> c]

TextAlphabet == {"a", "B", " ", "-", "U+0009", "U+2022", "U+00E9", "U+00A0",
                 "U+FF0D"}

TextInputs == SeqsUpTo(TextAlphabet, MaxTextLen) \cup NonStrings

Years == {1999, 2020}
TzOffsets == {0 - 8, 0, 9}

TwoDigits(n) == <<DigitSeq[(n \div 10) + 1], DigitSeq[(n % 10) + 1]>>

YearMonth(y, m) == YearDigits(y) \o <<"-">> \o TwoDigits(m)

DateInputs ==
    {Undefined, <<>>, presentLower, PresentText, toUpperCase(PresentText)}
    \cup {YearMonth(y, m) : y \in Years, m \in 0..13}

NameInputs ==
    {Undefined, <<>>, <<"a">>, <<"a","b">>, <<"A","l">>, <<"1","2">>,
     <<"A","-","l">>, <<"a","-">>, <<"U+00E9">>, <<" "," ","x"," "," ">>,
     Rep("a", 99), Rep("a", 100)}

EmailInputs ==
    {Undefined, <<>>, <<"a","@","b",".","c">>, <<"n","o","t","-","a","n","-","e","m","a","i","l">>,
     <<"a","@","b">>, <<"@","b",".","c">>,
     <<"a","@","b",".">>, <<"a","@",".","c">>,
     <<"a"," ","b","@","c",".","d">>, <<"a","@","b","@","c",".","d">>,
     <<" ","a","@","b",".","c"," ">>, <<"a","@","b",".","c","U+2022">>,
     <<"a","-","b","@","c",".","d">>, <<"a","@","b",".","c",".","d">>}

TitleInputs == {Undefined, <<>>, <<"D","r">>, <<" ","C","-","T","-","O"," ">>, <<"U+2022">>}
CompanyInputs == {Undefined, <<"X","-","Y"," "," ","Z">>}
PhoneInputs == {Undefined, <<>>, <<"5","5","5","-","0","1">>}

RefInputs ==
    [name : NameInputs, email : EmailInputs, title : TitleInputs,
     company : CompanyInputs, relationship : CompanyInputs,
     phone : PhoneInputs]

SkillAlphabet == {"a", "B", "c", "D", " "}

SkillSamples ==
    {<<"A","I">>, <<"t","o">>, <<"a">>,
     <<"e","a","r","l","y">>, <<"J","a","v","a","S","c","r","i","p","t">>, <<"E","a","r","l","y">>,
     <<"E","A","R","L","Y">>, <<" ","e","a","r","l","y"," ">>, <<"s","t","a","r","t">>,
     <<"c","s","s">>, <<"C","S","S">>, <<"s","q","l">>,
     <<"j","a","v","a">>, <<"m","a","c">>, <<"M","a","c">>,
     <<"c","a","d">>, <<"a","c","a","d">>, <<"A","u","t","o","C","A","D">>,
     <<"a","b","c">>, <<"a","b","c","d">>, <<"a","b","c","d","e">>,
     <<"A","b","c">>, <<"a","B","c">>, <<"A","b","C">>,
     <<"A","B","C">>, <<"A","B">>, <<" "," ","a","b"," "," ">>,
     <<" ","a","b","c"," ">>, <<"i","O","S">>, <<"l","i","n","u","x">>,
     <<"p","u","b","l","i","c">>, <<"g","i","t">>, <<"G","i","t">>,
     <<"r","u","s","t">>, <<"M","y","S","Q","L">>}

SkillInputs == SeqsUpTo(SkillAlphabet, MaxTextLen + 1) \cup SkillSamples

PlainSkill(t) == [obj |-> FALSE, name |-> t, level |-> <<>>, category |-> <<>>]
EnhancedSkill(t) ==
    [obj |-> TRUE, name |-> t, level |-> <<"E","x","p","e","r","t">>, category |-> <<"T","o","o","l">>]

SkillWords == <<<<"A","I">>, <<"t","o">>, <<"a">>,
                <<"e","a","r","l","y">>, <<"J","a","v","a","S","c","r","i","p","t">>>>

SkillListInputs ==
    {MapSeq(SkillWords, PlainSkill), MapSeq(SkillWords, EnhancedSkill)}
    \cup {MapSeq(ws, PlainSkill) :
            ws \in SeqsUpTo({<<"A","I">>, <<"t","o">>, <<"a">>,
                <<"e","a","r","l","y">>, <<"J","a","v","a","S","c","r","i","p","t">>, <<"r","e","a","c","t">>,
                <<"G","o"," ","l","a","n","g">>}, MaxTextLen)}

CheckCursors == {30, 100, 500, 530, 544, 545, 546, 553, 554, 555, 590, 700}
CheckSpaces == {0, 1, 8, 9, 10, 24, 50, 600}

LayoutAt(y, p) == [NewLayout EXCEPT !.yPosition = y, !.pages = p]


IdleCall == [fn |-> "none", arg |-> <<>>, res |-> <<>>]

\* The builder page is not part of a run of a helper or of the exporter.
NoBuilder == [page |-> "none"]
NoWorld == [page |-> "none"]

InitFn ==
    /\ call = IdleCall
    /\ env = [tz |-> 0]
    /\ resumeData = NoResume
    /\ jobDescription = Undefined
    /\ pc = "idle"
    /\ lay = NewLayout
    /\ outcome = "idle"
    /\ builder = NoBuilder
    /\ world = NoWorld

CallCleanText ==
    /\ call = IdleCall
    /\ \E x \in TextInputs :
          call' = [fn |-> "cleanText", arg |-> x,
                   res |-> [main |-> cleanText(x), variant |-> cleanText2(x)]]
    /\ UNCHANGED <<builder, world, env, resumeData, jobDescription, pc, lay,
                   outcome>>

CallFormatDate ==
    /\ call = IdleCall
    /\ \E d \in DateInputs, e \in BOOLEAN, tz \in TzOffsets :
          call' = [fn |-> "formatDate",
                   arg |-> [date |-> d, isEndDate |-> e, tz |-> tz],
                   res |-> [main |-> formatDate(d, e, tz),
                            variant |-> formatDate2(d, e, tz)]]
    /\ UNCHANGED <<builder, world, env, resumeData, jobDescription, pc, lay,
                   outcome>>

CallValidateReference ==
    /\ call = IdleCall
    /\ \E ref \in RefInputs :
          call' = [fn |-> "validateReference", arg |-> ref,
                   res |-> validateReference(ref)]
    /\ UNCHANGED <<builder, world, env, resumeData, jobDescription, pc, lay,
                   outcome>>

CallIsValidSkill ==
    /\ call = IdleCall
    /\ \E t \in SkillInputs :
          call' = [fn |-> "isValidSkill", arg |-> t, res |-> isValidSkill(t)]
    /\ UNCHANGED <<builder, world, env, resumeData, jobDescription, pc, lay,
                   outcome>>

CallSkillsArray ==
    /\ call = IdleCall
    /\ \E skills \in SkillListInputs :
          call' = [fn |-> "skillsArray", arg |-> skills,
                   res |-> skillsArray(skills)]
    /\ UNCHANGED <<builder, world, env, resumeData, jobDescription, pc, lay,
                   outcome>>

CallCheckPageBreak ==
    /\ call = IdleCall
    /\ \E y \in CheckCursors, r \in CheckSpaces, p \in 1..2 :
          call' = [fn |-> "checkPageBreak",
                   arg |-> [y |-> y, requiredSpace |-> r, pages |-> p],
                   res |-> [main |-> checkPageBreak(LayoutAt(y, p), r),
                            variant |-> checkPageBreak2(LayoutAt(y, p), r)]]
    /\ UNCHANGED <<builder, world, env, resumeData, jobDescription, pc, lay,
                   outcome>>

\* The most full chunks of a job description, and the lengths of the
\* cleaned job descriptions: around every multiple of the chunk length.
MaxChunks == 3
AtsLengths ==
    {0, 1} \cup {k * maxChunkLength + d : k \in 1..MaxChunks, d \in {0 - 1, 0, 1}}

\* A job description of n characters that cleanText keeps, alone or
\* wrapped in characters that cleanText removes.
AtsText(n) == [i \in 1..n |-> DigitSeq[(i % 7) + 1]]
AtsInputs ==
    {AtsText(n) : n \in AtsLengths}
    \cup {<<" ", "U+2022">> \o AtsText(n) \o <<" ">> : n \in AtsLengths}

\* The ATS embedding step of generateTextPDF, from a cursor y on page p.
CallEmbedJobDescription ==
    /\ call = IdleCall
    /\ \E jd \in AtsInputs, y \in {30, 545}, p \in 1..2 :
          call' = [fn |-> "embedJobDescription",
                   arg |-> [jd |-> jd, y |-> y, pages |-> p],
                   res |-> embedJobDescription(LayoutAt(y, p), jd)]
    /\ UNCHANGED <<builder, world, env, resumeData, jobDescription, pc, lay,
                   outcome>>

\* The most skills drawn in two columns, and the sorted list they are the
\* first of.
MaxColumnSkills == 9
SortedSkills ==
    <<<<"A","d","a">>, <<"B","a","s","h">>, <<"C","O","B","O","L">>,
      <<"D","a","r","t">>, <<"E","l","m">>, <<"F","l","a","s","k">>,
      <<"G","i","t">>, <<"H","T","M","L">>, <<"I","o","n","i","c">>,
      <<"J","a","v","a">>, <<"K","o","t","l","i","n">>>>

\* renderSkillsInColumns on the first n skills, from a cursor y.
CallRenderSkillsInColumns ==
    /\ call = IdleCall
    /\ \E n \in minSkillsForColumns..Min(MaxColumnSkills, Len(SortedSkills)),
          y \in CheckCursors, p \in 1..2 :
          call' = [fn |-> "renderSkillsInColumns",
                   arg |-> [skills |-> SubSeq(SortedSkills, 1, n), y |-> y,
                            pages |-> p],
                   res |-> renderSkillsInColumns(LayoutAt(y, p),
                                                 SubSeq(SortedSkills, 1, n))]
    /\ UNCHANGED <<builder, world, env, resumeData, jobDescription, pc, lay,
                   outcome>>

NextFn ==
    \/ CallRenderSkillsInColumns
    \/ CallEmbedJobDescription
    \/ CallCleanText
    \/ CallFormatDate
    \/ CallValidateReference
    \/ CallIsValidSkill
    \/ CallSkillsArray
    \/ CallCheckPageBreak

SpecFn == InitFn /\ [][NextFn]_vars

-----------------------------------------------------------------------------
(* generateTextPDF (main exporter) run on resume documents drawn from a     *)
(* bounded set.  The run is one call; pc is its position between sections.  *)

MaxRecords == 10

\* Two samples of every user text: one that cleanText leaves alone and one
\* that it changes (an accented letter, a hyphen, a bullet glyph).
Sample(dirty, plain, marked) == IF dirty THEN marked ELSE plain

Line(dirty) ==
    Sample(dirty, <<"l","e","d"," ","i","t">>,
                  <<"U+2022"," ","l","e","d"," ","U+00E9","-","x">>)

\* A description of n lines.
RECURSIVE Lines(_, _)
Lines(dirty, n) ==
    IF n = 0 THEN <<>>
    ELSE IF n = 1 THEN Line(dirty)
    ELSE Line(dirty) \o <<"U+000A">> \o Lines(dirty, n - 1)

Word(dirty) == Sample(dirty, <<"A","c","m","e">>, <<"A","-","c","U+00E9">>)

ExperienceRecord(dirty) ==
    [position |-> Word(dirty), company |-> Word(dirty),
     startDate |-> YearMonth(2020, 3), endDate |-> Undefined,
     location |-> Word(dirty), description |-> Lines(dirty, 3)]

EducationRecord(dirty, long) ==
    [degree |-> Word(dirty), school |-> Word(dirty),
     startDate |-> YearMonth(1999, 9), endDate |-> YearMonth(2020, 13),
     location |-> Word(dirty), gpa |-> <<"3",".","9">>, honors |-> Undefined,
     description |-> IF long THEN Line(FALSE) ELSE Undefined,
     courses |-> IF long
                 THEN Sample(dirty, <<"M","a","t","h",","," ","A","r","t",",","L","a","w">>,
                                    <<"M","-","1",","," ","A","r","t","U+00E9",",","L","a","w">>)
                 ELSE Undefined]

SkillNames(long) ==
    IF long
    THEN <<<<"r","u","s","t">>, <<"A","I">>, <<"S","Q","L">>, <<"G","i","t">>,
           <<"J","a","v","a">>, <<"l","i","n","u","x">>>>
    ELSE <<<<"S","Q","L">>, <<"t","o">>, <<"G","i","t">>>>

ProjectRecord(dirty, named) ==
    [name |-> IF named THEN Word(dirty) ELSE <<" ">>,
     technologies |-> Word(dirty),
     startDate |-> YearMonth(2020, 1), endDate |-> PresentText,
     description |-> Lines(dirty, 2), link |-> Word(dirty)]

CertificationRecord(dirty) ==
    [name |-> Word(dirty), issuer |-> Word(dirty), date |-> <<"2","0","2","0">>,
     expiration |-> <<"2","0","3","0">>, credentialId |-> Word(dirty),
     verificationLink |-> Word(dirty)]

LanguageNames(long) ==
    IF long
    THEN <<<<"S","w","a","h","i","l","i">>, <<"e","n","g","l","i","s","h">>,
           <<"F","r","e","n","c","h">>, <<"U+2022">>, <<"A","r","a","b","i","c">>>>
    ELSE <<<<"S","w","a","h","i","l","i">>, <<"E","n","g","l","i","s","h">>>>

LanguageRecord(name) ==
    [language |-> name, proficiency |-> <<"F","l","u","e","n","t">>]

ReferenceRecord(dirty) ==
    [name |-> Sample(dirty, <<"A","n","n">>, <<"U+00E9">>),
     email |-> Sample(dirty, <<"a","@","b",".","c">>, <<"a","@","b">>),
     title |-> Word(dirty), company |-> Word(dirty),
     relationship |-> Word(dirty), phone |-> <<"5","5","5","-","0","1">>]

NoPersonal ==
    [fullName |-> Undefined, email |-> Undefined, phone |-> Undefined,
     location |-> Undefined, summary |-> Undefined]

NameOnlyResume ==
    [personal |-> [NoPersonal EXCEPT !.fullName = <<"J","a","n","e"," ","D","o","e">>],
     experience |-> <<>>, education |-> <<>>, skills |-> <<>>,
     projects |-> <<>>, certifications |-> <<>>, languages |-> <<>>,
     interests |-> <<>>, references |-> <<>>]

\* A resume with every section filled: n experience records, the long or
\* the short form of the lists, plain or marked text.
FullResume(n, long, dirty) ==
    [personal |-> [fullName |-> Sample(dirty, <<"J","a","n","e"," ","D","o","e">>,
                                              <<"J","U+00E9"," ","D","-","o">>),
                   email |-> <<"j","@","d",".","e">>,
                   phone |-> <<"5","5","5","-","0","1">>,
                   location |-> Word(dirty),
                   summary |-> Line(dirty)],
     experience |-> [k \in 1..n |-> ExperienceRecord(dirty)],
     education |-> [k \in 1..(IF long THEN 2 ELSE 1) |->
                       EducationRecord(dirty, long)],
     skills |-> MapSeq(SkillNames(long),
                       LAMBDA t : IF long THEN EnhancedSkill(t)
                                  ELSE PlainSkill(t)),
     projects |-> <<ProjectRecord(dirty, TRUE), ProjectRecord(dirty, long)>>,
     certifications |-> [k \in 1..(IF long THEN 3 ELSE 1) |->
                            CertificationRecord(dirty)],
     languages |-> MapSeq(LanguageNames(long), LanguageRecord),
     interests |-> IF long
                   THEN <<Word(dirty), <<" ">>, <<"c","h","e","s","s">>,
                          <<"Z","e","n">>>>
                   ELSE <<<<"c","h","e","s","s">>>>,
     references |-> [k \in 1..(IF long THEN 2 ELSE 1) |->
                        ReferenceRecord(dirty)]]

ResumeInputs ==
    {NoResume, NameOnlyResume}
    \cup {FullResume(n, long, dirty) :
            n \in 0..MaxRecords, long \in BOOLEAN, dirty \in BOOLEAN}

JobDescriptionInputs ==
    {Undefined, <<" ">>, <<"R","u","s","t"," ","U+2022"," ","S","Q","L">>}

\* A resume whose second project carries a name that is not a string.
BadProjectResume ==
    [FullResume(1, FALSE, FALSE) EXCEPT !.projects[2].name = TruthyNonString]

Init ==
    /\ call = IdleCall
    /\ env \in [tz : TzOffsets]
    /\ resumeData \in ResumeInputs \cup {BadProjectResume}
    /\ jobDescription \in JobDescriptionInputs \cup {TruthyNonString}
    /\ pc = "start"
    /\ lay = NewLayout
    /\ outcome = "pending"
    /\ builder = NoBuilder
    /\ world = NoWorld

\* The control flow after a block of the try body that left the layout L:
\* the next block, or the catch clause when the block has thrown.
Continue(L, next) ==
    /\ lay' = L
    /\ IF HasThrown(L)
       THEN pc' = "done" /\ outcome' = catchError(L.log[Len(L.log)].kind)
       ELSE pc' = next /\ outcome' = outcome

\* const pdf = new jsPDF(...); if (!resumeData) throw ...
Begin ==
    /\ pc = "start"
    /\ Continue(IF resumeData = NoResume THEN Throw(lay, InvalidResumeData)
                ELSE lay,
                "ats")
    /\ UNCHANGED <<builder, world, call, env, resumeData, jobDescription>>

EmbedJobDescription ==
    /\ pc = "ats"
    /\ Continue(embedJobDescription(lay, jobDescription), "header")
    /\ UNCHANGED <<builder, world, call, env, resumeData, jobDescription>>

Header ==
    /\ pc = "header"
    /\ lay' = headerSection(lay, resumeData.personal)
    /\ pc' = "summary"
    /\ UNCHANGED <<builder, world, call, env, resumeData, jobDescription, outcome>>

Summary ==
    /\ pc = "summary"
    /\ lay' = summarySection(lay, resumeData.personal)
    /\ pc' = "experience"
    /\ UNCHANGED <<builder, world, call, env, resumeData, jobDescription, outcome>>

Experience ==
    /\ pc = "experience"
    /\ lay' = experienceSection(lay, resumeData.experience, env.tz)
    /\ pc' = "education"
    /\ UNCHANGED <<builder, world, call, env, resumeData, jobDescription, outcome>>

Education ==
    /\ pc = "education"
    /\ lay' = educationSection(lay, resumeData.education, env.tz)
    /\ pc' = "skills"
    /\ UNCHANGED <<builder, world, call, env, resumeData, jobDescription, outcome>>

Skills ==
    /\ pc = "skills"
    /\ lay' = skillsSection(lay, resumeData.skills)
    /\ pc' = "projects"
    /\ UNCHANGED <<builder, world, call, env, resumeData, jobDescription, outcome>>

Projects ==
    /\ pc = "projects"
    /\ Continue(projectsSection(lay, resumeData.projects, env.tz),
                "certifications")
    /\ UNCHANGED <<builder, world, call, env, resumeData, jobDescription>>

Certifications ==
    /\ pc = "certifications"
    /\ lay' = certificationsSection(lay, resumeData.certifications)
    /\ pc' = "languages"
    /\ UNCHANGED <<builder, world, call, env, resumeData, jobDescription, outcome>>

Languages ==
    /\ pc = "languages"
    /\ lay' = languagesSection(lay, resumeData.languages)
    /\ pc' = "interests"
    /\ UNCHANGED <<builder, world, call, env, resumeData, jobDescription, outcome>>

Interests ==
    /\ pc = "interests"
    /\ lay' = interestsSection(lay, resumeData.interests)
    /\ pc' = "references"
    /\ UNCHANGED <<builder, world, call, env, resumeData, jobDescription, outcome>>

References ==
    /\ pc = "references"
    /\ lay' = referencesSection(lay, resumeData.references)
    /\ pc' = "save"
    /\ UNCHANGED <<builder, world, call, env, resumeData, jobDescription, outcome>>

Save ==
    /\ pc = "save"
    /\ lay' = saveDocument(lay)
    /\ pc' = "done"
    /\ outcome' = "saved"
    /\ UNCHANGED <<builder, world, call, env, resumeData, jobDescription>>

Next ==
    \/ Begin
    \/ EmbedJobDescription
    \/ Header
    \/ Summary
    \/ Experience
    \/ Education
    \/ Skills
    \/ Projects
    \/ Certifications
    \/ Languages
    \/ Interests
    \/ References
    \/ Save

Spec == Init /\ [][Next]_vars

-----------------------------------------------------------------------------
(* generateTextPDF of the variant exporter, run the same way.  A run that  *)
(* executes `return` in the skills block resolves at once: its outcome is  *)
(* "returned".                                                             *)

BlankSkills == <<PlainSkill(<<" ">>), EnhancedSkill(<<" ", " ">>)>>

\* The resumes of the main exporter, and the full ones with no skills or
\* with blank skills only.
ResumeInputs2 ==
    {NoResume, NameOnlyResume}
    \cup {[FullResume(n, long, dirty) EXCEPT !.skills = s] :
            n \in {0, MaxRecords}, long \in BOOLEAN, dirty \in BOOLEAN,
            s \in {<<>>, BlankSkills}}
    \cup {FullResume(n, long, dirty) :
            n \in {0, MaxRecords}, long \in BOOLEAN, dirty \in BOOLEAN}

Init2 ==
    /\ call = IdleCall
    /\ env \in [tz : TzOffsets]
    /\ resumeData \in ResumeInputs2
    /\ jobDescription \in JobDescriptionInputs
    /\ pc = "start"
    /\ lay = NewLayout
    /\ outcome = "pending"
    /\ builder = NoBuilder
    /\ world = NoWorld

Begin2 ==
    /\ pc = "start"
    /\ Continue(IF resumeData = NoResume THEN Throw(lay, InvalidResumeData)
                ELSE lay,
                "ats")
    /\ UNCHANGED <<builder, world, call, env, resumeData, jobDescription>>

EmbedJobDescription2 ==
    /\ pc = "ats"
    /\ lay' = embedJobDescription2(lay, jobDescription)
    /\ pc' = "header"
    /\ UNCHANGED <<builder, world, call, env, resumeData, jobDescription, outcome>>

Header2 ==
    /\ pc = "header"
    /\ lay' = headerSection2(lay, resumeData.personal)
    /\ pc' = "summary"
    /\ UNCHANGED <<builder, world, call, env, resumeData, jobDescription, outcome>>

Summary2 ==
    /\ pc = "summary"
    /\ lay' = summarySection2(lay, resumeData.personal)
    /\ pc' = "experience"
    /\ UNCHANGED <<builder, world, call, env, resumeData, jobDescription, outcome>>

Experience2 ==
    /\ pc = "experience"
    /\ lay' = experienceSection2(lay, resumeData.experience, env.tz)
    /\ pc' = "education"
    /\ UNCHANGED <<builder, world, call, env, resumeData, jobDescription, outcome>>

Education2 ==
    /\ pc = "education"
    /\ lay' = educationSection2(lay, resumeData.education, env.tz)
    /\ pc' = "skills"
    /\ UNCHANGED <<builder, world, call, env, resumeData, jobDescription, outcome>>

Skills2 ==
    /\ pc = "skills"
    /\ lay' = skillsSection2(lay, resumeData.skills).lay
    /\ IF skillsSection2(lay, resumeData.skills).returned
       THEN pc' = "done" /\ outcome' = "returned"
       ELSE pc' = "projects" /\ outcome' = outcome
    /\ UNCHANGED <<builder, world, call, env, resumeData, jobDescription>>

Projects2 ==
    /\ pc = "projects"
    /\ lay' = projectsSection2(lay, resumeData.projects, env.tz)
    /\ pc' = "certifications"
    /\ UNCHANGED <<builder, world, call, env, resumeData, jobDescription, outcome>>

Certifications2 ==
    /\ pc = "certifications"
    /\ lay' = certificationsSection2(lay, resumeData.certifications)
    /\ pc' = "languages"
    /\ UNCHANGED <<builder, world, call, env, resumeData, jobDescription, outcome>>

Languages2 ==
    /\ pc = "languages"
    /\ lay' = languagesSection2(lay, resumeData.languages)
    /\ pc' = "interests"
    /\ UNCHANGED <<builder, world, call, env, resumeData, jobDescription, outcome>>

Interests2 ==
    /\ pc = "interests"
    /\ lay' = interestsSection2(lay, resumeData.interests)
    /\ pc' = "references"
    /\ UNCHANGED <<builder, world, call, env, resumeData, jobDescription, outcome>>

References2 ==
    /\ pc = "references"
    /\ lay' = referencesSection2(lay, resumeData.references)
    /\ pc' = "save"
    /\ UNCHANGED <<builder, world, call, env, resumeData, jobDescription, outcome>>

Save2 ==
    /\ pc = "save"
    /\ lay' = saveDocument(lay)
    /\ pc' = "done"
    /\ outcome' = "saved"
    /\ UNCHANGED <<builder, world, call, env, resumeData, jobDescription>>

Next2 ==
    \/ Begin2
    \/ EmbedJobDescription2
    \/ Header2
    \/ Summary2
    \/ Experience2
    \/ Education2
    \/ Skills2
    \/ Projects2
    \/ Certifications2
    \/ Languages2
    \/ Interests2
    \/ References2
    \/ Save2

Spec2 == Init2 /\ [][Next2]_vars

-----------------------------------------------------------------------------
(* The builder page (the Builder component) and the forms it hosts.  The   *)
(* page holds resumeData and jobDescription; builder holds the rest of its *)
(* state and the local state of the forms; world holds the stored row, the *)
(* remote requests and the clock.  A step is one run of a handler, or the  *)
(* part of an asynchronous handler between two awaits.                     *)

\* toast.error / toast.info / toast.success, and alert (kind "error").
Toast(kind, by, message) == [kind |-> kind, by |-> by, message |-> message]

NoToast == Toast("none", "none", "")

\* useState<ResumeData>({...}): the document of a fresh page.
EmptyResume ==
    [personal |-> [fullName |-> <<>>, email |-> <<>>, phone |-> <<>>,
                   location |-> <<>>, summary |-> <<>>],
     experience |-> <<>>, education |-> <<>>, skills |-> <<>>,
     projects |-> <<>>, certifications |-> <<>>, languages |-> <<>>,
     interests |-> <<>>, references |-> <<>>]

\* The values typed into the name, the summary and the job description.
NameValues == {<<>>, <<"J","a","n","e"," ","D","o","e">>}
SummaryValues == {<<>>, <<" ">>, <<"l","e","d"," ","i","t">>}
JobDescriptionValues == {<<>>, <<"R","u","s","t"," ","S","Q","L">>}
ApiKeyValues == {<<>>, <<"k","e","y">>}

\* The most remote requests one behaviour issues, the most records one
\* section array holds, the most ticks of the clock, and the most saves.
MaxRequests == 1
MaxItems == 2
MaxClock == 1
MaxSaves == 1

\* Date.now() when the page opens; the ids given by index are far below it.
ClockStart == 1000

\* The skills form before it is shown: useState([]), useState(false).  effect
\* tells that useEffect(.., [data]) has yet to run on an array the form
\* emitted, data is the array the effect last ran on, and last is the last
\* handler of the form with the mode it found: its array is "emitted", then
\* "passed" back once the effect has run on it, and "over" after that.
NoSkillsForm ==
    [mounted |-> FALSE, skills |-> <<>>, isEnhancedMode |-> FALSE,
     effect |-> FALSE, data |-> <<>>,
     last |-> [op |-> "none", after |-> "none", was |-> FALSE,
               array |-> "over"]]

InitBuilder ==
    /\ call = IdleCall
    /\ env = [tz |-> 0]
    /\ resumeData = EmptyResume
    /\ jobDescription = <<>>
    /\ pc = "builder"
    /\ lay = NewLayout
    /\ outcome = "pending"
    /\ builder \in [page : {"builder"}, apiKey : ApiKeyValues,
                     toast : {NoToast}, mounted : {FALSE}, educations : {<<>>},
                     generatingAI : {0}, generatingCourses : {0},
                     generatingInterests : {FALSE},
                     generatingSummary : {FALSE}, isGenerating : {FALSE},
                     skillsForm : {NoSkillsForm}]
    /\ world = [stored |-> NoResume, saves |-> 0, requests |-> 0,
                pending |-> <<>>, now |-> ClockStart]

\* setResumeData(prev => ({ ...prev, personal: { ...prev.personal, ...data } }))
updatePersonalInfo(rd, field, value) ==
    [rd EXCEPT !.personal[field] = value]

\* The personal form: onChange({ ...data, [field]: e.target.value })
PersonalChange ==
    /\ pc = "builder"
    /\ \E fv \in ({"fullName"} \X NameValues) \cup ({"summary"} \X SummaryValues) :
          resumeData' = updatePersonalInfo(resumeData, fv[1], fv[2])
    /\ UNCHANGED <<builder, world, call, env, jobDescription, pc, lay, outcome>>

\* onJobDescriptionChange of the JobDescriptionEmbedder.
onJobDescriptionChange ==
    /\ pc = "builder"
    /\ \E description \in JobDescriptionValues :
          /\ jobDescription' = description
          /\ builder' =
               IF Len(description) > 50
               THEN [builder EXCEPT !.toast =
                       Toast("info", "onJobDescriptionChange",
                             "Job description will be automatically embedded")]
               ELSE builder
    /\ UNCHANGED <<world, call, env, resumeData, pc, lay, outcome>>

\* { ...resumeData, jobDescription: jobDescription }
resumeWithATS(rd, jd) == ("jobDescription" :> jd) @@ rd

\* The outcome of the exporter run that left the layout L.
exportOutcome(L) ==
    IF HasThrown(L) THEN catchError(L.log[Len(L.log)].kind) ELSE "saved"

\* The toast that ends handleDownloadPDF after the exporter run L.
downloadToast(L, jd) ==
    IF HasThrown(L)
    THEN Toast("error", "handleDownloadPDF",
               "Failed to download PDF. Please try again.")
    ELSE IF Truthy(jd)
    THEN Toast("success", "handleDownloadPDF",
               "ATS-optimized PDF downloaded with hidden keywords")
    ELSE Toast("success", "handleDownloadPDF", "PDF downloaded successfully!")

\* handleDownloadPDF without its check of the name.
handleDownloadPDF_NoGuard ==
    /\ pc = "builder"
    /\ lay' = generateTextPDF(resumeWithATS(resumeData, jobDescription),
                              Undefined, env.tz)
    /\ outcome' = exportOutcome(lay')
    /\ builder' = [builder EXCEPT !.toast = downloadToast(lay', jobDescription)]
    /\ UNCHANGED <<world, call, env, resumeData, jobDescription, pc>>

\* The exporter is called with three arguments: its fourth parameter, the
\* job description, is undefined.
handleDownloadPDF ==
    /\ pc = "builder"
    /\ IF ~Truthy(resumeData.personal.fullName)
       THEN /\ builder' = [builder EXCEPT !.toast =
                             Toast("error", "handleDownloadPDF",
                                   "Please add your name before downloading")]
            /\ UNCHANGED <<lay, outcome>>
       ELSE /\ lay' = generateTextPDF(resumeWithATS(resumeData, jobDescription),
                                      Undefined, env.tz)
            /\ outcome' = exportOutcome(lay')
            /\ builder' = [builder EXCEPT !.toast =
                             downloadToast(lay', jobDescription)]
    /\ UNCHANGED <<world, call, env, resumeData, jobDescription, pc>>

\* createNewEducation(): every field empty, the id read from the clock.
createNewEducation(now) ==
    [id |-> now, school |-> <<>>, degree |-> <<>>, location |-> <<>>,
     startDate |-> <<>>, endDate |-> <<>>, gpa |-> <<>>, description |-> <<>>,
     courses |-> <<>>, honors |-> <<>>]

\* data.map((x, index) => ({ ...x, id: x.id || index + 1 })): the section
\* update handlers of the page.  A missing id is 0; indices count from 1.
withIds(data) ==
    [i \in DOMAIN data |->
        [data[i] EXCEPT !.id = IF data[i].id # 0 THEN data[i].id ELSE i]]

\* updateEducation of the page.
updateEducation(rd, data) == [rd EXCEPT !.education = withIds(data)]

\* The values typed into the fields of an education card.
EducationEdits ==
    {<<"degree", <<"B","S","c">>>>,
     <<"startDate", <<"2","0","2","0">>>>}

\* /^\d{4}-\d{2}$/.test(value)
IsYearMonth(value) ==
    /\ Len(value) = 7
    /\ value[5] = "-"
    /\ \A i \in {1, 2, 3, 4, 6, 7} : value[i] \in DigitSet

\* The education form is keyed by the tab and by isDataLoaded: it mounts
\* again, and reads its data again, when either changes.
MountEducationForm ==
    /\ pc = "builder"
    /\ builder' = [builder EXCEPT
                     !.mounted = TRUE,
                     !.educations =
                        IF Len(resumeData.education) > 0
                        THEN resumeData.education
                        ELSE <<createNewEducation(world.now)>>]
    /\ UNCHANGED <<world, call, env, resumeData, jobDescription, pc, lay, outcome>>

addEducation ==
    /\ pc = "builder"
    /\ builder.mounted
    /\ Len(builder.educations) < MaxItems
    /\ builder' = [builder EXCEPT
                     !.educations = Append(@, createNewEducation(world.now)),
                     !.toast = Toast("success", "addEducation",
                                     "New education added")]
    /\ resumeData' = updateEducation(resumeData, builder'.educations)
    /\ UNCHANGED <<world, call, env, jobDescription, pc, lay, outcome>>

\* updateEducation(id, field, value) of the form, as an operator on the
\* state of the form.
EducationForm_updateEducation(educations, id, field, value) ==
    [i \in DOMAIN educations |->
        IF educations[i].id = id
        THEN [educations[i] EXCEPT ![field] = value]
        ELSE educations[i]]

EducationChange ==
    /\ pc = "builder"
    /\ builder.mounted
    /\ \E i \in DOMAIN builder.educations, fv \in EducationEdits :
          IF fv[1] = "startDate" /\ ~(fv[2] = <<>> \/ IsYearMonth(fv[2]))
          THEN /\ builder' = [builder EXCEPT !.toast =
                                Toast("error", "updateEducation",
                                      "Please use YYYY-MM format for dates")]
               /\ UNCHANGED resumeData
          ELSE /\ builder' = [builder EXCEPT !.educations =
                                EducationForm_updateEducation(
                                  @, builder.educations[i].id, fv[1], fv[2])]
               /\ resumeData' = updateEducation(resumeData, builder'.educations)
    /\ UNCHANGED <<world, call, env, jobDescription, pc, lay, outcome>>

removeEducation ==
    /\ pc = "builder"
    /\ builder.mounted
    /\ \E i \in DOMAIN builder.educations :
          IF Len(builder.educations) = 1
          THEN /\ builder' = [builder EXCEPT !.toast =
                                Toast("error", "removeEducation",
                                      "At least one education entry is required")]
               /\ UNCHANGED resumeData
          ELSE /\ builder' = [builder EXCEPT
                                !.educations =
                                   SelectSeq(@, LAMBDA edu :
                                       edu.id # builder.educations[i].id),
                                !.toast = Toast("success", "removeEducation",
                                                "Education removed")]
               /\ resumeData' = updateEducation(resumeData, builder'.educations)
    /\ UNCHANGED <<world, call, env, jobDescription, pc, lay, outcome>>

\* The clock of the browser advances between two handlers, or does not.
Tick ==
    /\ pc = "builder"
    /\ world.now < ClockStart + MaxClock
    /\ world' = [world EXCEPT !.now = @ + 1]
    /\ UNCHANGED <<builder, call, env, resumeData, jobDescription, pc, lay, outcome>>

(***************************************************************************)
(* The AI handlers.  Each is asynchronous: the action named after the      *)
(* handler is its code up to the await of the remote request, AIResponse   *)
(* is its code after the await.  A request in flight keeps the values the  *)
(* handler closed over when it started.                                    *)
(***************************************************************************)
AIHandlers ==
    {"handleAIOptimize", "generateAIDescription", "generateAICourses",
     "generateProfessionalInterests", "generateAISummary",
     "enhanceExistingSummary", "generateSkillsWithAI"}

\* The flags the forms show while a request is in flight.
GeneratingFlags(b) ==
    <<b.generatingAI, b.generatingCourses, b.generatingInterests,
      b.generatingSummary, b.isGenerating>>

\* supabase.functions.invoke(..) / fetch(..): one more request is in flight.
issueRequest(w, handler, eduId, closed) ==
    [w EXCEPT !.requests = @ + 1,
              !.pending = Append(@, [handler |-> handler, eduId |-> eduId,
                                     closed |-> closed])]

NoApiKey(by, message) == Toast("error", by, message)

handleAIOptimize ==
    /\ pc = "builder"
    /\ IF ~Truthy(resumeData.personal.fullName)
       THEN /\ builder' = [builder EXCEPT !.toast =
                  Toast("error", "handleAIOptimize",
                        "Please add personal information first")]
            /\ UNCHANGED world
       ELSE IF ~Truthy(builder.apiKey)
       THEN /\ builder' = [builder EXCEPT !.toast =
                  NoApiKey("handleAIOptimize",
                           "Please set your Gemini API key in Settings first")]
            /\ UNCHANGED world
       ELSE /\ world.requests < MaxRequests
            /\ builder' = [builder EXCEPT !.toast =
                  Toast("info", "handleAIOptimize",
                        "AI is optimizing your resume...")]
            /\ world' = issueRequest(world, "handleAIOptimize", 0, resumeData)
    /\ UNCHANGED <<call, env, resumeData, jobDescription, pc, lay, outcome>>

\* generateAIDescription and generateAICourses of the education form differ
\* in the flag they set and in the field the answer goes to.
educationAI_NoKeyGuard(handler, flag, eduId) ==
    LET found == SelectSeq(builder.educations, LAMBDA e : e.id = eduId)
    IN IF found = <<>> \/ ~Truthy(found[1].degree)
       THEN /\ builder' = [builder EXCEPT !.toast =
                  Toast("error", handler, "Please fill in degree first")]
            /\ UNCHANGED world
       ELSE /\ world.requests < MaxRequests
            /\ builder' = [builder EXCEPT ![flag] = eduId]
            /\ world' = issueRequest(world, handler, eduId, builder.educations)

educationAI(handler, flag, eduId) ==
    LET found == SelectSeq(builder.educations, LAMBDA e : e.id = eduId)
    IN IF found = <<>> \/ ~Truthy(found[1].degree)
       THEN /\ builder' = [builder EXCEPT !.toast =
                  Toast("error", handler, "Please fill in degree first")]
            /\ UNCHANGED world
       ELSE IF ~Truthy(builder.apiKey)
       THEN /\ builder' = [builder EXCEPT !.toast =
                  NoApiKey(handler, "Please set your Gemini API key in Settings")]
            /\ UNCHANGED world
       ELSE /\ world.requests < MaxRequests
            /\ builder' = [builder EXCEPT ![flag] = eduId]
            /\ world' = issueRequest(world, handler, eduId, builder.educations)

generateAIDescription ==
    /\ pc = "builder"
    /\ builder.mounted
    /\ \E i \in DOMAIN builder.educations :
          educationAI("generateAIDescription", "generatingAI",
                      builder.educations[i].id)
    /\ UNCHANGED <<call, env, resumeData, jobDescription, pc, lay, outcome>>

generateAICourses ==
    /\ pc = "builder"
    /\ builder.mounted
    /\ \E i \in DOMAIN builder.educations :
          educationAI("generateAICourses", "generatingCourses",
                      builder.educations[i].id)
    /\ UNCHANGED <<call, env, resumeData, jobDescription, pc, lay, outcome>>

generateProfessionalInterests ==
    /\ pc = "builder"
    /\ IF ~Truthy(builder.apiKey)
       THEN /\ builder' = [builder EXCEPT !.toast =
                  NoApiKey("generateProfessionalInterests",
                           "Please set your Gemini API key in Settings to use AI suggestions")]
            /\ UNCHANGED world
       ELSE /\ world.requests < MaxRequests
            /\ builder' = [builder EXCEPT !.generatingInterests = TRUE]
            /\ world' = issueRequest(world, "generateProfessionalInterests", 0,
                                     resumeData.interests)
    /\ UNCHANGED <<call, env, resumeData, jobDescription, pc, lay, outcome>>

\* The personal form has a job description field of its own; formJob is
\* what it holds when the button is pressed.
generateAISummary ==
    /\ pc = "builder"
    /\ \E formJob \in JobDescriptionValues :
         IF ~Truthy(builder.apiKey)
         THEN /\ builder' = [builder EXCEPT !.toast =
                    NoApiKey("generateAISummary",
                             "Please set your Gemini API key in Settings first")]
              /\ UNCHANGED world
         ELSE IF ~Truthy(trim(formJob)) /\ ~Truthy(resumeData.personal.fullName)
         THEN /\ builder' = [builder EXCEPT !.toast =
                    Toast("error", "generateAISummary",
                          "Please enter a job description or your name first")]
              /\ UNCHANGED world
         ELSE /\ world.requests < MaxRequests
              /\ builder' = [builder EXCEPT !.generatingSummary = TRUE]
              /\ world' = issueRequest(world, "generateAISummary", 0,
                                       resumeData.personal)
    /\ UNCHANGED <<call, env, resumeData, jobDescription, pc, lay, outcome>>

enhanceExistingSummary ==
    /\ pc = "builder"
    /\ IF ~Truthy(builder.apiKey)
       THEN /\ builder' = [builder EXCEPT !.toast =
                  NoApiKey("enhanceExistingSummary",
                           "Please set your Gemini API key in Settings first")]
            /\ UNCHANGED world
       ELSE IF ~Truthy(trim(resumeData.personal.summary))
       THEN /\ builder' = [builder EXCEPT !.toast =
                  Toast("error", "enhanceExistingSummary",
                        "Please add a summary first to enhance it")]
            /\ UNCHANGED world
       ELSE /\ world.requests < MaxRequests
            /\ builder' = [builder EXCEPT !.generatingSummary = TRUE]
            /\ world' = issueRequest(world, "enhanceExistingSummary", 0,
                                     resumeData.personal)
    /\ UNCHANGED <<call, env, resumeData, jobDescription, pc, lay, outcome>>

\* The skills form reports with alert(..); formJob and currentRole are its
\* two text fields when the button is pressed.
generateSkillsWithAI ==
    /\ pc = "builder"
    /\ \E formJob \in JobDescriptionValues, currentRole \in {<<>>, <<" ">>} :
         IF ~Truthy(builder.apiKey)
         THEN /\ builder' = [builder EXCEPT !.toast =
                    NoApiKey("generateSkillsWithAI",
                             "Please set up your Gemini API key first")]
              /\ UNCHANGED world
         ELSE IF ~Truthy(trim(formJob)) /\ ~Truthy(trim(currentRole))
         THEN /\ builder' = [builder EXCEPT !.toast =
                    Toast("error", "generateSkillsWithAI",
                          "Please provide either a job description or your current role")]
              /\ UNCHANGED world
         ELSE /\ world.requests < MaxRequests
              /\ builder' = [builder EXCEPT !.isGenerating = TRUE]
              /\ world' = issueRequest(world, "generateSkillsWithAI", 0,
                                       resumeData.skills)
    /\ UNCHANGED <<call, env, resumeData, jobDescription, pc, lay, outcome>>

\* What the remote service answers: an error, an answer without content,
\* or this content.
AIAnswers == {"error", "empty", "content"}
AIContent == <<"l","e","d"," ","i","t">>
AIInterests == <<<<"C","h","e","s","s">>>>
AISkills == <<EnhancedSkill(<<"R","u","s","t">>)>>

\* The state of the skills form: useEffect(.., [data]) rebuilds it from data.
IsEnhancedData(data) == data # <<>> /\ data[1].obj
formSkills(data) ==
    [i \in DOMAIN data |->
        IF IsEnhancedData(data)
        THEN [obj |-> TRUE,
              name |-> IF data[i].obj THEN data[i].name ELSE Undefined,
              level |-> IF Truthy(data[i].level) THEN data[i].level
                        ELSE <<"I","n","t","e","r","m","e","d","i","a","t","e">>,
              category |-> IF Truthy(data[i].category) THEN data[i].category
                           ELSE <<"T","e","c","h","n","i","c","a","l">>]
        ELSE [obj |-> TRUE, name |-> data[i].name,
              level |-> <<"I","n","t","e","r","m","e","d","i","a","t","e">>,
              category |-> <<"T","e","c","h","n","i","c","a","l">>]]

\* updateSkillsData: records in enhanced mode, names otherwise.
updateSkillsData(data, updatedSkills) ==
    IF IsEnhancedData(data)
    THEN updatedSkills
    ELSE [i \in DOMAIN updatedSkills |-> PlainSkill(updatedSkills[i].name)]

NewByName(have, suggested) ==
    SelectSeq(suggested, LAMBDA s :
        \A i \in DOMAIN have : toLowerCase(have[i]) # toLowerCase(s))

\* The document after the answer to the request p; answer is "content".
answered(rd, p) ==
    CASE p.handler = "handleAIOptimize" ->
           [p.closed EXCEPT !.personal.summary = AIContent]
      [] p.handler = "generateAIDescription" ->
           updateEducation(rd, EducationForm_updateEducation(
                                 p.closed, p.eduId, "description", AIContent))
      [] p.handler = "generateAICourses" ->
           updateEducation(rd, EducationForm_updateEducation(
                                 p.closed, p.eduId, "courses", AIContent))
      [] p.handler = "generateProfessionalInterests" ->
           [rd EXCEPT !.interests =
               p.closed \o NewByName(p.closed, AIInterests)]
      [] p.handler \in {"generateAISummary", "enhanceExistingSummary"} ->
           [rd EXCEPT !.personal = [p.closed EXCEPT !.summary = AIContent]]
      [] p.handler = "generateSkillsWithAI" ->
           [rd EXCEPT !.skills =
               updateSkillsData(p.closed,
                   formSkills(p.closed) \o
                   SelectSeq(AISkills, LAMBDA s :
                       \A i \in DOMAIN p.closed :
                           toLowerCase(p.closed[i].name) # toLowerCase(s.name)))]

\* finally { setGenerating..(null | false) }
flagsCleared(b, p) ==
    CASE p.handler = "generateAIDescription" -> [b EXCEPT !.generatingAI = 0]
      [] p.handler = "generateAICourses" -> [b EXCEPT !.generatingCourses = 0]
      [] p.handler = "generateProfessionalInterests" ->
           [b EXCEPT !.generatingInterests = FALSE]
      [] p.handler \in {"generateAISummary", "enhanceExistingSummary"} ->
           [b EXCEPT !.generatingSummary = FALSE]
      [] p.handler = "generateSkillsWithAI" -> [b EXCEPT !.isGenerating = FALSE]
      [] OTHER -> b

RemoveAt(s, i) == SubSeq(s, 1, i - 1) \o SubSeq(s, i + 1, Len(s))

\* The rest of an AI handler, from the answer of the remote service on.
AIResponse ==
    /\ pc = "builder"
    /\ \E i \in DOMAIN world.pending, answer \in AIAnswers :
         LET p == world.pending[i]
             ok == answer = "content"
                   \/ (answer = "empty" /\ p.handler = "handleAIOptimize")
             b1 == flagsCleared(builder, p)
             b2 == IF answer = "content"
                      /\ p.handler \in {"generateAIDescription", "generateAICourses"}
                   THEN [b1 EXCEPT !.educations =
                           EducationForm_updateEducation(
                              p.closed, p.eduId,
                              IF p.handler = "generateAICourses"
                              THEN "courses" ELSE "description", AIContent)]
                   ELSE b1
         IN /\ world' = [world EXCEPT !.pending = RemoveAt(@, i)]
            /\ resumeData' = IF answer = "content" THEN answered(resumeData, p)
                             ELSE resumeData
            /\ builder' = [b2 EXCEPT !.toast =
                             Toast(IF answer = "content" THEN "success"
                                   ELSE IF ok THEN "info" ELSE "error",
                                   p.handler, answer)]
    /\ UNCHANGED <<call, env, jobDescription, pc, lay, outcome>>

\* The page with its forms and their AI buttons.
NextAI ==
    \/ PersonalChange
    \/ MountEducationForm
    \/ EducationChange
    \/ addEducation
    \/ handleAIOptimize
    \/ generateAIDescription
    \/ generateAICourses
    \/ generateProfessionalInterests
    \/ generateAISummary
    \/ enhanceExistingSummary
    \/ generateSkillsWithAI
    \/ AIResponse

SpecAI == InitBuilder /\ [][NextAI]_vars

(***************************************************************************)
(* Saving, loading and importing.  world.stored is the row of the resumes  *)
(* table; a value that JSON drops (undefined) is Undefined in a row.       *)
(***************************************************************************)

\* value || fallback
OrElse(value, fallback) ==
    IF value \in {Undefined, Null, <<>>} THEN fallback ELSE value

Intermediate == <<"I","n","t","e","r","m","e","d","i","a","t","e">>
Technical == <<"T","e","c","h","n","i","c","a","l">>

\* formatWithBullets: the lines of the text, trimmed, the empty ones
\* dropped, each given a bullet unless it starts with one and a space.
formatWithBullets(text) ==
    IF ~Truthy(text) THEN <<>>
    ELSE LET lines == SelectSeq(MapSeq(Split(text, {"U+000A"}), trim),
                                LAMBDA line : line # <<>>)
         IN Join([k \in DOMAIN lines |->
                    IF /\ Len(lines[k]) >= 2
                       /\ lines[k][1] \in {"U+2022", "U+00B7", "U+2023",
                                           "U+25AA", "U+25AB", "-"}
                       /\ lines[k][2] \in WhiteSpace
                    THEN lines[k]
                    ELSE <<"U+2022", " ">> \o lines[k]],
                 <<"U+000A">>)

\* updateExperience of the page.
updateExperience(rd, data) ==
    [rd EXCEPT !.experience =
        [i \in DOMAIN data |->
            [data[i] EXCEPT
               !.id = IF data[i].id # 0 THEN data[i].id ELSE i,
               !.description = IF Truthy(data[i].description)
                               THEN formatWithBullets(data[i].description)
                               ELSE <<>>]]]

\* updateSkills of the page: the array as the form gives it.
updateSkills(rd, data) == [rd EXCEPT !.skills = data]

\* A column of the row: an array with its items, or a value that is not
\* an array.  An item of an array is a record of the section or null.
AnArray(items) == [isArray |-> TRUE, items |-> items]
NotAnArray == [isArray |-> FALSE, items |-> <<>>]
NullItem == [null |-> TRUE]

\* Array.isArray(column) ? column : []
arrayOf(column) == IF column.isArray THEN column.items ELSE <<>>

\* An item of the array is null.
HasNull(items) == \E i \in DOMAIN items : items[i] = NullItem

\* personal_info of the row: an object, a string that parses to an object,
\* a string that parses to null, a string that does not parse, or nothing.
\* parsedPersonal is the object the fields are read from.
NoPersonalFields ==
    [fullName |-> Undefined, email |-> Undefined, phone |-> Undefined,
     location |-> Undefined, summary |-> Undefined]
parsedPersonal(info) ==
    IF info.kind \in {"object", "json"} THEN info.value ELSE NoPersonalFields

\* resumePayload of saveResumeData: the sections as they are.
resumePayload(rd, jd) ==
    [personal_info |-> [kind |-> "object", value |-> rd.personal],
     experience |-> AnArray(rd.experience),
     education |-> AnArray(rd.education), skills |-> AnArray(rd.skills),
     certifications |-> AnArray(rd.certifications),
     languages |-> AnArray(rd.languages),
     interests |-> AnArray(rd.interests), projects |-> AnArray(rd.projects),
     references |-> AnArray(rd.references), job_description |-> jd]

\* processedSkills of loadResumeData, without the defaults for an empty
\* level or category.
processedSkills_NoDefaults(skills) ==
    IF skills # <<>> /\ skills[1].obj /\ skills[1].name # Undefined
       /\ skills[1].level # Undefined
    THEN skills
    ELSE SelectSeq(skills, LAMBDA skill :
            skill # NullItem /\ ~skill.obj /\ Truthy(skill.name))

\* processedSkills of loadResumeData.  The first item decides the shape; in
\* the enhanced branch a plain string has no name, level or category.
processedSkills(skills) ==
    IF skills # <<>> /\ skills[1].obj /\ skills[1].name # Undefined
       /\ skills[1].level # Undefined
    THEN [i \in DOMAIN skills |->
            IF skills[i].obj
            THEN [obj |-> TRUE, name |-> OrElse(skills[i].name, <<>>),
                  level |-> OrElse(skills[i].level, Intermediate),
                  category |-> OrElse(skills[i].category, Technical)]
            ELSE [obj |-> TRUE, name |-> <<>>, level |-> Intermediate,
                  category |-> Technical]]
    ELSE SelectSeq(skills, LAMBDA skill :
            skill # NullItem /\ ~skill.obj /\ Truthy(skill.name))

\* x.id || index + 1
idOrIndex(x, index) == IF x.id # 0 THEN x.id ELSE index

\* The statements of loadResumeData that read a property of null: the
\* test of skills[0], the map over an enhanced skills array, the fields of
\* a personal_info that parsed to null, and the map over a section array.
skillsThrow(skills) ==
    /\ skills # <<>>
    /\ \/ skills[1] = NullItem
       \/ /\ skills[1].obj
          /\ skills[1].name # Undefined
          /\ skills[1].level # Undefined
          /\ HasNull(skills)

loadThrows_Never(row) == FALSE

loadThrows(row) ==
    \/ skillsThrow(arrayOf(row.skills))
    \/ row.personal_info.kind = "null"
    \/ \E s \in {"experience", "education", "certifications", "languages",
                  "projects", "references"} : HasNull(arrayOf(row[s]))

\* newResumeData of loadResumeData: each section mapped field by field.
newResumeData(row) ==
    [personal |->
        [fullName |-> OrElse(parsedPersonal(row.personal_info).fullName, <<>>),
         email |-> OrElse(parsedPersonal(row.personal_info).email, <<>>),
         phone |-> OrElse(parsedPersonal(row.personal_info).phone, <<>>),
         location |-> OrElse(parsedPersonal(row.personal_info).location, <<>>),
         summary |-> OrElse(parsedPersonal(row.personal_info).summary, <<>>)],
     experience |->
        [i \in DOMAIN arrayOf(row.experience) |->
            LET exp == arrayOf(row.experience)[i]
            IN [id |-> idOrIndex(exp, i),
                company |-> OrElse(exp.company, <<>>),
                position |-> OrElse(exp.position, <<>>),
                location |-> OrElse(exp.location, <<>>),
                startDate |-> OrElse(exp.startDate, <<>>),
                endDate |-> OrElse(exp.endDate, <<>>),
                description |-> OrElse(exp.description, <<>>)]],
     education |->
        [i \in DOMAIN arrayOf(row.education) |->
            LET edu == arrayOf(row.education)[i]
            IN [id |-> idOrIndex(edu, i),
                school |-> OrElse(edu.school, <<>>),
                degree |-> OrElse(edu.degree, <<>>),
                location |-> OrElse(edu.location, <<>>),
                startDate |-> OrElse(edu.startDate, <<>>),
                endDate |-> OrElse(edu.endDate, <<>>),
                gpa |-> OrElse(edu.gpa, <<>>)]],
     skills |-> processedSkills(arrayOf(row.skills)),
     certifications |->
        [i \in DOMAIN arrayOf(row.certifications) |->
            LET cert == arrayOf(row.certifications)[i]
            IN [id |-> idOrIndex(cert, i),
                name |-> OrElse(cert.name, <<>>),
                issuer |-> OrElse(cert.issuer, <<>>),
                date |-> OrElse(cert.date, <<>>),
                credentialId |-> OrElse(cert.credentialId, <<>>)]],
     languages |->
        [i \in DOMAIN arrayOf(row.languages) |->
            LET lang == arrayOf(row.languages)[i]
            IN [id |-> idOrIndex(lang, i),
                language |-> OrElse(lang.language, <<>>),
                proficiency |-> OrElse(lang.proficiency, <<>>)]],
     interests |-> SelectSeq(arrayOf(row.interests), Truthy),
     projects |->
        [i \in DOMAIN arrayOf(row.projects) |->
            LET proj == arrayOf(row.projects)[i]
            IN [id |-> idOrIndex(proj, i),
                name |-> OrElse(proj.name, <<>>),
                description |-> OrElse(proj.description, <<>>),
                technologies |-> OrElse(proj.technologies, <<>>),
                link |-> OrElse(proj.link, <<>>),
                startDate |-> OrElse(proj.startDate, <<>>),
                endDate |-> OrElse(proj.endDate, <<>>)]],
     references |->
        [i \in DOMAIN arrayOf(row.references) |->
            LET ref == arrayOf(row.references)[i]
            IN [id |-> idOrIndex(ref, i),
                name |-> OrElse(ref.name, <<>>),
                title |-> OrElse(ref.title, <<>>),
                company |-> OrElse(ref.company, <<>>),
                email |-> OrElse(ref.email, <<>>),
                phone |-> OrElse(ref.phone, <<>>),
                relationship |-> OrElse(ref.relationship, <<>>)]]]

\* The skills arrays saved and loaded back: up to MaxSkills items, records
\* with a name, a level and a category, or plain strings, or both.
MaxSkills == 2
SkillItems ==
    [obj : {TRUE}, name : {<<>>, <<"G","o">>},
     level : {<<>>, <<"E","x","p","e","r","t">>},
     category : {<<>>, <<"T","o","o","l">>}]
    \cup {PlainSkill(t) : t \in {<<>>, <<"G","o">>, <<"S","Q","L">>}}
SkillsInputs == SeqsUpTo(SkillItems, MaxSkills)

\* saveResumeData, then loadResumeData on the row it wrote.
savedAndLoaded(rd, jd) == newResumeData(resumePayload(rd, jd))

CallSaveAndLoad ==
    /\ call = IdleCall
    /\ \E skills \in SkillsInputs :
          call' = [fn |-> "saveAndLoad", arg |-> skills,
                   res |-> savedAndLoaded(
                              [EmptyResume EXCEPT !.skills = skills], <<>>).skills]
    /\ UNCHANGED <<builder, world, env, resumeData, jobDescription, pc, lay,
                   outcome>>

Acme == <<"A","c","m","e">>

\* Documents of the page: the empty one, and one with a record in every
\* section whose education has or has not a description, courses, honors.
DocumentInputs ==
    {EmptyResume} \cup
    {[EmptyResume EXCEPT
        !.personal.fullName = <<"J","a","n","e"," ","D","o","e">>,
        !.experience = <<[id |-> 1, company |-> Acme, position |-> Acme,
                          location |-> <<>>, startDate |-> <<>>,
                          endDate |-> <<>>,
                          description |-> <<"l","e","d"," ","i","t">>]>>,
        !.education = <<[createNewEducation(ClockStart) EXCEPT
                           !.school = Acme, !.description = description,
                           !.courses = courses, !.honors = honors]>>,
        !.skills = <<PlainSkill(<<"R","u","s","t">>)>>,
        !.interests = <<<<"C","h","e","s","s">>>>] :
        description \in {<<>>, <<"l","e","d"," ","i","t">>},
        courses \in {<<>>, <<"S","Q","L">>},
        honors \in {<<>>, <<"c","u","m"," ","l","a","u","d","e">>}}

CallSaveAndLoadDocument ==
    /\ call = IdleCall
    /\ \E rd \in DocumentInputs :
          call' = [fn |-> "saveAndLoadDocument", arg |-> rd,
                   res |-> savedAndLoaded(rd, <<>>)]
    /\ UNCHANGED <<builder, world, env, resumeData, jobDescription, pc, lay,
                   outcome>>

\* One save and load of a document whose skills are drawn from the inputs,
\* or of a document of the inputs.
NextSaveLoad ==
    \/ CallSaveAndLoad
    \/ CallSaveAndLoadDocument

SpecSaveLoad == InitFn /\ [][NextSaveLoad]_vars

saveResumeData ==
    /\ pc = "builder"
    /\ world.saves < MaxSaves
    /\ world' = [world EXCEPT
                   !.stored = resumePayload(resumeData, jobDescription),
                   !.saves = @ + 1]
    /\ builder' = [builder EXCEPT !.toast =
                     Toast("success", "saveResumeData",
                           IF Truthy(jobDescription)
                           THEN "Resume saved with ATS optimization!"
                           ELSE "Resume saved successfully!")]
    /\ UNCHANGED <<call, env, resumeData, jobDescription, pc, lay, outcome>>

\* loadResumeData, from the answer of the query on.  isDataLoaded goes to
\* false and back to true, which changes the key of the form section: the
\* forms mount again.
loadResumeData ==
    /\ pc = "builder"
    /\ IF world.stored = NoResume
       THEN /\ UNCHANGED <<resumeData, jobDescription>>
            /\ builder' = [builder EXCEPT !.mounted = FALSE, !.educations = <<>>,
                                         !.skillsForm = NoSkillsForm]
       ELSE IF loadThrows(world.stored)
       THEN /\ UNCHANGED <<resumeData, jobDescription>>
            /\ builder' = [builder EXCEPT
                             !.mounted = FALSE, !.educations = <<>>,
                             !.skillsForm = NoSkillsForm,
                             !.toast = Toast("error", "loadResumeData",
                                             "Failed to load resume data")]
       ELSE /\ resumeData' = newResumeData(world.stored)
            /\ jobDescription' = IF Truthy(world.stored.job_description)
                                 THEN world.stored.job_description
                                 ELSE jobDescription
            /\ builder' = [builder EXCEPT !.mounted = FALSE, !.educations = <<>>,
                                         !.skillsForm = NoSkillsForm]
    /\ UNCHANGED <<world, call, env, pc, lay, outcome>>

\* [...new Set(values)]: a string is kept where it first occurs; two
\* objects are never the same object.
RECURSIVE uniqueSkills(_, _)
uniqueSkills(values, seen) ==
    IF values = <<>> THEN seen
    ELSE uniqueSkills(Tail(values),
            IF \E i \in DOMAIN seen : seen[i] = Head(values) /\ ~Head(values).obj
            THEN seen ELSE Append(seen, Head(values)))

RECURSIVE uniqueStrings(_, _)
uniqueStrings(values, seen) ==
    IF values = <<>> THEN seen
    ELSE uniqueStrings(Tail(values),
            IF \E i \in DOMAIN seen : seen[i] = Head(values)
            THEN seen ELSE Append(seen, Head(values)))

\* What the CV parser and the profile services hand over: one record for
\* each section, with the id the service gave it (0: none).
ExternalIds == {0, 1}
ExternalData(id) ==
    [personal |-> [fullName |-> <<"J","a","n","e"," ","D","o","e">>,
                   email |-> <<>>, phone |-> <<>>, location |-> <<>>,
                   summary |-> <<>>],
     experience |-> <<[id |-> id, company |-> Acme, position |-> Acme,
                       location |-> <<>>, startDate |-> <<>>, endDate |-> <<>>,
                       description |-> <<"l","e","d"," ","i","t">>]>>,
     education |-> <<[createNewEducation(id) EXCEPT
                        !.school = Acme, !.degree = <<"B","S","c">>]>>,
     skills |-> <<PlainSkill(<<"R","u","s","t">>)>>,
     certifications |-> <<[id |-> id, name |-> Acme, issuer |-> Acme,
                           date |-> <<>>, credentialId |-> <<>>]>>,
     languages |-> <<[id |-> id, language |-> Acme, proficiency |-> <<>>]>>,
     interests |-> <<<<"C","h","e","s","s">>>>,
     projects |-> <<[id |-> id, name |-> Acme, description |-> <<>>,
                     technologies |-> <<>>, link |-> <<>>,
                     startDate |-> <<>>, endDate |-> <<>>]>>,
     references |-> <<[id |-> id, name |-> Acme, title |-> <<>>,
                       company |-> <<>>, email |-> <<>>, phone |-> <<>>,
                       relationship |-> <<>>]>>]

SectionArrays ==
    {"experience", "education", "projects", "certifications", "languages",
     "references"}

\* No section array grows past MaxItems.
RoomFor(rd, n) == \A s \in SectionArrays : Len(rd[s]) + n <= MaxItems

handleCVDataExtracted ==
    /\ pc = "builder"
    /\ RoomFor(resumeData, 1)
    /\ \E id \in ExternalIds :
         LET extractedData == ExternalData(id)
             prev == resumeData
         IN resumeData' =
              [personal |->
                 [fullName |-> OrElse(extractedData.personal.fullName, prev.personal.fullName),
                  email |-> OrElse(extractedData.personal.email, prev.personal.email),
                  phone |-> OrElse(extractedData.personal.phone, prev.personal.phone),
                  location |-> OrElse(extractedData.personal.location, prev.personal.location),
                  summary |-> OrElse(extractedData.personal.summary, prev.personal.summary)],
               experience |-> prev.experience \o extractedData.experience,
               education |-> prev.education \o extractedData.education,
               skills |-> uniqueSkills(prev.skills \o extractedData.skills, <<>>),
               certifications |-> prev.certifications \o extractedData.certifications,
               languages |-> prev.languages \o extractedData.languages,
               interests |-> uniqueStrings(prev.interests \o extractedData.interests, <<>>),
               projects |-> prev.projects \o extractedData.projects,
               references |-> prev.references \o extractedData.references]
    /\ builder' = [builder EXCEPT
                     !.mounted = FALSE, !.educations = <<>>,
                     !.skillsForm = NoSkillsForm,
                     !.toast = Toast("success", "handleCVDataExtracted",
                                     "CV data successfully imported!")]
    /\ UNCHANGED <<world, call, env, jobDescription, pc, lay, outcome>>

\* handleImportFromProfile, from the answers of the profile services on:
\* no profile, a failure, or merged data.  The merged personal record has
\* every key, so { ...prev.personal, ...mergedData.personal } is that record.
handleImportFromProfile ==
    /\ pc = "builder"
    /\ RoomFor(resumeData, 1)
    /\ \/ /\ builder' = [builder EXCEPT !.toast =
                           Toast("error", "handleImportFromProfile",
                                 "No profile data found")]
          /\ UNCHANGED resumeData
       \/ /\ builder' = [builder EXCEPT !.toast =
                           Toast("error", "handleImportFromProfile",
                                 "Failed to import profile data")]
          /\ UNCHANGED resumeData
       \/ \E id \in ExternalIds :
            LET mergedData == ExternalData(id)
                prev == resumeData
            IN /\ resumeData' =
                    [prev EXCEPT
                       !.personal = mergedData.personal,
                       !.experience = @ \o mergedData.experience,
                       !.education = @ \o mergedData.education,
                       !.skills = uniqueSkills(@ \o mergedData.skills, <<>>),
                       !.projects = @ \o mergedData.projects,
                       !.references = @ \o mergedData.references]
               /\ builder' = [builder EXCEPT !.toast =
                                Toast("success", "handleImportFromProfile",
                                      "Profile data imported successfully!")]
    /\ UNCHANGED <<world, call, env, jobDescription, pc, lay, outcome>>

\* What the job description parser hands over: one experience without an
\* id, alone or with skills by name and a summary; has tells which.
ParsedInputs ==
    [has : {[skills |-> b, experience |-> TRUE, summary |-> b] : b \in BOOLEAN},
     skills : {<<<<"R","u","s","t">>>>},
     experience : {ExternalData(0).experience[1]},
     summary : {<<"l","e","d"," ","i","t">>}]

parsedSkills(currentSkills, newSkills) ==
    LET fresh == SelectSeq(newSkills, LAMBDA skill :
                    \A i \in DOMAIN currentSkills :
                        toLowerCase(currentSkills[i].name) # toLowerCase(skill))
    IN IF currentSkills # <<>> /\ currentSkills[1].obj
          /\ currentSkills[1].name # Undefined
       THEN currentSkills \o
            [k \in DOMAIN fresh |->
                [obj |-> TRUE, name |-> fresh[k], level |-> Intermediate,
                 category |-> Technical]]
       ELSE currentSkills \o [k \in DOMAIN fresh |-> PlainSkill(fresh[k])]

withParsedSkills(rd, parsedData) ==
    IF ~parsedData.has.skills THEN rd
    ELSE updateSkills(rd, parsedSkills(rd.skills, parsedData.skills))

withParsedExperience(rd, before, parsedData) ==
    IF ~parsedData.has.experience THEN rd
    ELSE updateExperience(rd, Append(before.experience, parsedData.experience))

withParsedSummary(rd, before, parsedData) ==
    IF ~parsedData.has.summary THEN rd
    ELSE [rd EXCEPT !.personal = [before.personal EXCEPT
                                    !.summary = parsedData.summary]]

handleJobDescriptionParsed ==
    /\ pc = "builder"
    /\ RoomFor(resumeData, 1)
    /\ \E parsedData \in ParsedInputs :
         resumeData' =
            withParsedSummary(
               withParsedExperience(
                  withParsedSkills(resumeData, parsedData),
                  resumeData, parsedData),
               resumeData, parsedData)
    /\ builder' = [builder EXCEPT !.toast =
                     Toast("success", "handleJobDescriptionParsed",
                           "Job description parsed and applied to resume!")]
    /\ UNCHANGED <<world, call, env, jobDescription, pc, lay, outcome>>

\* Rows of unexpected shape: each column as saved, not an array, an array
\* holding null, or an array of a record without fields; personal_info an
\* object, a string of an object, of null, of no JSON at all, or absent.
SavedRow == resumePayload(ExternalData(1), <<>>)
FieldlessExperience ==
    [id |-> 0, company |-> Undefined, position |-> Undefined,
     location |-> Undefined, startDate |-> Undefined, endDate |-> Undefined,
     description |-> Undefined]
FieldlessEducation ==
    [id |-> 0, school |-> Undefined, degree |-> Undefined,
     location |-> Undefined, startDate |-> Undefined, endDate |-> Undefined,
     gpa |-> Undefined]
LoadRows ==
    {[SavedRow EXCEPT !.personal_info = info, !.experience = experience,
                      !.education = education, !.skills = skills,
                      !.interests = interests] :
        info \in {SavedRow.personal_info,
                   [kind |-> "json", value |-> SavedRow.personal_info.value],
                   [kind |-> "null"], [kind |-> "unparsable"], [kind |-> "absent"]},
        experience \in {SavedRow.experience, NotAnArray, AnArray(<<NullItem>>),
                         AnArray(<<FieldlessExperience>>)},
        education \in {SavedRow.education, NotAnArray, AnArray(<<NullItem>>),
                        AnArray(<<FieldlessEducation>>)},
        skills \in {SavedRow.skills, NotAnArray, AnArray(<<NullItem>>),
                     AnArray(<<EnhancedSkill(<<"G","o">>)>>),
                     AnArray(<<EnhancedSkill(<<"G","o">>), NullItem>>),
                     AnArray(<<PlainSkill(<<"G","o">>), NullItem>>)},
        interests \in {SavedRow.interests, NotAnArray,
                        AnArray(<<Null, <<"C","h","e","s","s">>>>)}}

\* A signed-in user opens the page on a row of the table.
InitLoad ==
    /\ call = IdleCall
    /\ env = [tz |-> 0]
    /\ resumeData = EmptyResume
    /\ jobDescription = <<>>
    /\ pc = "builder"
    /\ lay = NewLayout
    /\ outcome = "pending"
    /\ builder \in [page : {"builder"}, apiKey : {<<>>},
                     toast : {NoToast}, mounted : {FALSE}, educations : {<<>>},
                     generatingAI : {0}, generatingCourses : {0},
                     generatingInterests : {FALSE},
                     generatingSummary : {FALSE}, isGenerating : {FALSE},
                     skillsForm : {NoSkillsForm}]
    /\ \E row \in LoadRows :
          world = [stored |-> row, saves |-> 0, requests |-> 0,
                   pending |-> <<>>, now |-> ClockStart]

NextLoad ==
    \/ loadResumeData

SpecLoad == InitLoad /\ [][NextLoad]_vars

\* The page with the education form, the imports, the job description
\* parser, and the save and load of the document.
NextStore ==
    \/ MountEducationForm
    \/ addEducation
    \/ EducationChange
    \/ removeEducation
    \/ Tick
    \/ saveResumeData
    \/ loadResumeData
    \/ handleCVDataExtracted
    \/ handleImportFromProfile
    \/ handleJobDescriptionParsed

\* The store handlers never read the API key.
InitStore == InitBuilder /\ builder.apiKey = <<>>

SpecStore == InitStore /\ [][NextStore]_vars

(***************************************************************************)
(* The skills form on the page.  A handler of the form emits an array with *)
(* onChange; updateSkills puts it in the document; the form is rendered    *)
(* with it as data, and useEffect(.., [data]) runs before the next event.  *)
(***************************************************************************)

\* The effect has yet to run: the form has just been shown, or data is an
\* array it has not run on.
SkillsEffectPending ==
    /\ builder.skillsForm.mounted
    /\ \/ builder.skillsForm.effect
       \/ builder.skillsForm.data # resumeData.skills

\* The rows of the form: data.map((skill, index) => ({ id: index + 1, .. })).
skillRows(data) ==
    [i \in DOMAIN data |->
        [id |-> i, name |-> formSkills(data)[i].name,
         level |-> formSkills(data)[i].level,
         category |-> formSkills(data)[i].category]]

\* What a handler emits: records in enhanced mode, names otherwise.
emitted(isEnhancedMode, skills) ==
    [i \in DOMAIN skills |->
        IF isEnhancedMode
        THEN [obj |-> TRUE, name |-> skills[i].name, level |-> skills[i].level,
              category |-> skills[i].category]
        ELSE PlainSkill(skills[i].name)]

\* The skills tab is opened.
MountSkillsForm ==
    /\ pc = "builder"
    /\ ~builder.skillsForm.mounted
    /\ builder' = [builder EXCEPT !.skillsForm =
                     [NoSkillsForm EXCEPT !.mounted = TRUE, !.effect = TRUE]]
    /\ UNCHANGED <<world, call, env, resumeData, jobDescription, pc, lay,
                   outcome>>

\* useEffect(() => {..}, [data])
SkillsEffect ==
    /\ pc = "builder"
    /\ SkillsEffectPending
    /\ LET data == resumeData.skills
       IN builder' = [builder EXCEPT !.skillsForm =
            [@ EXCEPT !.effect = FALSE, !.data = data,
                      !.last.array = IF @ = "emitted" /\ builder.skillsForm.effect
                                     THEN "passed" ELSE "over",
                      !.skills = IF data = <<>> THEN <<>> ELSE skillRows(data),
                      !.isEnhancedMode = IF data = <<>> THEN FALSE
                                         ELSE IsEnhancedData(data)]]
    /\ UNCHANGED <<world, call, env, resumeData, jobDescription, pc, lay,
                   outcome>>

toggleEnhancedMode ==
    /\ pc = "builder"
    /\ builder.skillsForm.mounted
    /\ ~SkillsEffectPending
    /\ LET form == builder.skillsForm
           newMode == ~form.isEnhancedMode
       IN /\ builder' = [builder EXCEPT !.skillsForm =
                 [form EXCEPT !.isEnhancedMode = newMode, !.effect = TRUE,
                              !.last = [op |-> "toggleEnhancedMode",
                                        after |-> form.last.op,
                                        was |-> form.isEnhancedMode,
                                        array |-> "emitted"]]]
          /\ resumeData' = updateSkills(resumeData,
                                        emitted(newMode, form.skills))
    /\ UNCHANGED <<world, call, env, jobDescription, pc, lay, outcome>>

\* What is typed into the field of the new skill.
NewSkillValues == {<<" ">>, <<"G","o">>, <<"r","u","s","t">>}

\* addSkill with the level and the category the form starts with.  An
\* empty name and a name the form has already leave the form alone; a row
\* without a name makes skill.name.toLowerCase() throw, and the handler
\* ends there.
addSkill ==
    /\ pc = "builder"
    /\ builder.skillsForm.mounted
    /\ ~SkillsEffectPending
    /\ Len(builder.skillsForm.skills) <= MaxSkills
    /\ \E newSkill \in NewSkillValues :
         LET form == builder.skillsForm
             updatedSkills ==
                 Append(form.skills,
                        [id |-> world.now, name |-> trim(newSkill),
                         level |-> Intermediate, category |-> Technical])
         IN IF \/ ~Truthy(trim(newSkill))
               \/ \E i \in DOMAIN form.skills :
                     \/ form.skills[i].name = Undefined
                     \/ toLowerCase(form.skills[i].name)
                          = toLowerCase(trim(newSkill))
            THEN UNCHANGED <<builder, resumeData>>
            ELSE /\ builder' = [builder EXCEPT !.skillsForm =
                        [form EXCEPT !.skills = updatedSkills, !.effect = TRUE,
                                     !.last = [op |-> "addSkill",
                                               after |-> IF form.last.array = "passed"
                                                         THEN form.last.op
                                                         ELSE "none",
                                               was |-> form.last.was,
                                               array |-> "emitted"]]]
                 /\ resumeData' = updateSkills(resumeData,
                        emitted(form.isEnhancedMode, updatedSkills))
    /\ UNCHANGED <<world, call, env, jobDescription, pc, lay, outcome>>

removeSkill ==
    /\ pc = "builder"
    /\ builder.skillsForm.mounted
    /\ ~SkillsEffectPending
    /\ \E k \in DOMAIN builder.skillsForm.skills :
         LET form == builder.skillsForm
             id == form.skills[k].id
             updatedSkills == SelectSeq(form.skills, LAMBDA skill : skill.id # id)
         IN /\ builder' = [builder EXCEPT !.skillsForm =
                   [form EXCEPT !.skills = updatedSkills, !.effect = TRUE,
                                !.last = [op |-> "removeSkill",
                                          after |-> form.last.op,
                                          was |-> form.last.was,
                                          array |-> "emitted"]]]
            /\ resumeData' = updateSkills(resumeData,
                   emitted(form.isEnhancedMode, updatedSkills))
    /\ UNCHANGED <<world, call, env, jobDescription, pc, lay, outcome>>

\* The page with the skills form, the imports and the job description
\* parser.  An event is handled once the effects of the last have run.
NextSkills ==
    \/ MountSkillsForm
    \/ SkillsEffect
    \/ toggleEnhancedMode
    \/ addSkill
    \/ removeSkill
    \/ ~SkillsEffectPending /\ handleCVDataExtracted
    \/ ~SkillsEffectPending /\ handleImportFromProfile
    \/ ~SkillsEffectPending /\ handleJobDescriptionParsed

SpecSkills == InitStore /\ [][NextSkills]_vars

(***************************************************************************)
(* One session of the page against the resumes table: the load that the    *)
(* effect on [user, resumeIdParam] starts, and the save, each in two       *)
(* steps, before and after its await.  An id of 0 is no id.                *)
(***************************************************************************)

\* The most loads and the most saves of one session.
MaxLoads == 3
MaxSaveCalls == 2

\* The id parameter of the address: none, a record of the user (the third
\* holds a null where a record is expected), or the id of no record.
Params == {0, 1, 2, 3, 4}
Ann == <<"A","n","n">>
InitialTable ==
    [id \in 1..(Cardinality(Params) + MaxSaveCalls) |->
        CASE id = 1 -> SavedRow
          [] id = 2 -> resumePayload(
                         [ExternalData(1) EXCEPT !.personal.fullName = Ann], <<>>)
          [] id = 3 -> [SavedRow EXCEPT !.experience = AnArray(<<NullItem>>)]
          [] OTHER -> NoResume]

InitSession ==
    /\ call = IdleCall
    /\ env = [tz |-> 0]
    /\ resumeData = EmptyResume
    /\ jobDescription = <<>>
    /\ pc = "builder"
    /\ lay = NewLayout
    /\ outcome = "pending"
    /\ builder \in [page : {"builder"}, apiKey : {<<>>},
                     toast : {NoToast}, mounted : {FALSE}, educations : {<<>>},
                     generatingAI : {0}, generatingCourses : {0},
                     generatingInterests : {FALSE},
                     generatingSummary : {FALSE}, isGenerating : {FALSE},
                     skillsForm : {NoSkillsForm},
                     resumeIdParam : Params, resumeId : {0},
                     isDataLoaded : {FALSE}, saving : {FALSE},
                     effect : {TRUE}]
    /\ world = [table |-> InitialTable, latest |-> 2, inserts |-> 0,
                loads |-> 0, failed |-> FALSE, saveCalls |-> 0,
                loading |-> <<>>, saving |-> <<>>, now |-> ClockStart]

\* The address changes to another id parameter: the effect is due.
Navigate ==
    /\ pc = "builder"
    /\ ~builder.effect
    /\ world.loads < MaxLoads
    /\ \E param \in Params \ {builder.resumeIdParam} :
          builder' = [builder EXCEPT !.resumeIdParam = param, !.effect = TRUE]
    /\ UNCHANGED <<world, call, env, resumeData, jobDescription, pc, lay,
                   outcome>>

\* The effect calls loadResumeData, which runs up to `await query`.
LoadRequest ==
    /\ pc = "builder"
    /\ builder.effect
    /\ builder' = [builder EXCEPT !.effect = FALSE, !.isDataLoaded = FALSE,
                                  !.mounted = FALSE, !.educations = <<>>,
                                  !.skillsForm = NoSkillsForm]
    /\ world' = [world EXCEPT
                   !.loads = @ + 1,
                   !.loading = Append(@, [param |-> builder.resumeIdParam])]
    /\ UNCHANGED <<call, env, resumeData, jobDescription, pc, lay, outcome>>

\* The rows the query answers: the record of the id, or the latest one.
queried(w, param) ==
    LET id == IF param # 0 THEN param ELSE w.latest
    IN IF id # 0 /\ w.table[id] # NoResume THEN <<id>> ELSE <<>>

\* The catch block of loadResumeData.
loadCaught_StillLoading(b) ==
    [b EXCEPT !.toast = Toast("error", "loadResumeData",
                              "Failed to load resume data")]

loadCaught(b) ==
    [b EXCEPT !.toast = Toast("error", "loadResumeData",
                              "Failed to load resume data"),
              !.isDataLoaded = TRUE]

\* loadResumeData from the answer of the query on: an error, no row, a
\* row whose processing throws after setResumeId, or a row.
LoadResponse ==
    /\ pc = "builder"
    /\ \E i \in DOMAIN world.loading, error \in BOOLEAN :
         LET data == queried(world, world.loading[i].param)
         IN /\ world' = [world EXCEPT !.loading = RemoveAt(@, i),
                                      !.failed = @ \/ error]
            /\ IF error
               THEN /\ builder' = loadCaught(builder)
                    /\ UNCHANGED <<resumeData, jobDescription>>
               ELSE IF data = <<>>
               THEN /\ builder' = [builder EXCEPT !.isDataLoaded = TRUE]
                    /\ UNCHANGED <<resumeData, jobDescription>>
               ELSE IF loadThrows(world.table[data[1]])
               THEN /\ builder' = loadCaught([builder EXCEPT !.resumeId = data[1]])
                    /\ UNCHANGED <<resumeData, jobDescription>>
               ELSE /\ builder' = [builder EXCEPT !.resumeId = data[1],
                                                  !.isDataLoaded = TRUE]
                    /\ resumeData' = newResumeData(world.table[data[1]])
                    /\ jobDescription' =
                          IF Truthy(world.table[data[1]].job_description)
                          THEN world.table[data[1]].job_description
                          ELSE jobDescription
    /\ UNCHANGED <<call, env, pc, lay, outcome>>

\* saveResumeData up to its await: an update of the record of resumeId, or
\* an insert when there is none.  The page shows its header once the data
\* is loaded; the handler does not look at `saving`.  param and settled
\* note the id parameter and whether a load was in flight at the call.
SaveRequest ==
    /\ pc = "builder"
    /\ ~builder.effect
    /\ builder.isDataLoaded
    /\ world.saveCalls < MaxSaveCalls
    /\ builder' = [builder EXCEPT !.saving = TRUE]
    /\ world' = [world EXCEPT
                   !.saveCalls = @ + 1,
                   !.saving = Append(@,
                       [insert |-> builder.resumeId = 0,
                        id |-> builder.resumeId,
                        payload |-> resumePayload(resumeData, jobDescription),
                        param |-> builder.resumeIdParam,
                        settled |-> world.loading = <<>>])]
    /\ UNCHANGED <<call, env, resumeData, jobDescription, pc, lay, outcome>>

\* saveResumeData from the answer of the table on.
SaveResponse ==
    /\ pc = "builder"
    /\ \E i \in DOMAIN world.saving, error \in BOOLEAN :
         LET save == world.saving[i]
             newId == Cardinality(Params) + world.inserts
             saved == Toast("success", "saveResumeData",
                            IF Truthy(jobDescription)
                            THEN "Resume saved with ATS optimization!"
                            ELSE "Resume saved successfully!")
         IN IF error
            THEN /\ world' = [world EXCEPT !.saving = RemoveAt(@, i)]
                 /\ builder' = [builder EXCEPT
                                  !.saving = FALSE,
                                  !.toast = Toast("error", "saveResumeData",
                                                  "Failed to save resume")]
            ELSE IF save.insert
            THEN /\ world' = [world EXCEPT !.saving = RemoveAt(@, i),
                                           !.table[newId] = save.payload,
                                           !.latest = newId,
                                           !.inserts = @ + 1]
                 /\ builder' = [builder EXCEPT !.saving = FALSE,
                                               !.resumeId = newId,
                                               !.toast = saved]
            ELSE /\ world' = [world EXCEPT
                                !.saving = RemoveAt(@, i),
                                !.table[save.id] =
                                    IF @ = NoResume THEN @ ELSE save.payload,
                                !.latest = IF world.table[save.id] = NoResume
                                           THEN @ ELSE save.id]
                 /\ builder' = [builder EXCEPT !.saving = FALSE, !.toast = saved]
    /\ UNCHANGED <<call, env, resumeData, jobDescription, pc, lay, outcome>>

NextSession ==
    \/ Navigate
    \/ LoadRequest
    \/ LoadResponse
    \/ SaveRequest
    \/ SaveResponse

SpecSession == InitSession /\ [][NextSession]_vars

\* The loads of a session alone: the effect runs, and the query of every
\* load returns.
NextLoads ==
    \/ Navigate
    \/ LoadRequest
    \/ LoadResponse

SpecLoadsFair ==
    /\ InitSession
    /\ [][NextLoads]_vars
    /\ WF_vars(LoadRequest)
    /\ WF_vars(LoadResponse)

NextBuilder ==
    \/ PersonalChange
    \/ onJobDescriptionChange
    \/ handleDownloadPDF

SpecBuilder == InitBuilder /\ [][NextBuilder]_vars

-----------------------------------------------------------------------------
(* Properties of the helpers, checked under SpecFn.                        *)

\* C1: cleanText is idempotent in both exporter variants: cleaning the
\* result of a cleaning changes nothing.
C1_CleanTextIdempotent ==
    call.fn = "cleanText" =>
        /\ cleanText(call.res.main) = call.res.main
        /\ cleanText2(call.res.variant) = call.res.variant

\* An input with a hyphen and whitespace that the sanitizer changes without
\* emptying it.
C1_Witness ==
    /\ call.fn = "cleanText"
    /\ "-" \in Range(call.arg)
    /\ Range(call.arg) \cap WhiteSpace # {}
    /\ call.res.main \notin {<<>>, call.arg}
    /\ call.res.variant \notin {<<>>, call.arg}

IsTidy(r) ==
    /\ Range(r) \subseteq PrintableAscii
    /\ "-" \notin Range(r)
    /\ Range(r) \cap BulletDashSet = {}
    /\ \A i \in 1..(Len(r) - 1) : ~(r[i] = " " /\ r[i + 1] = " ")
    /\ r # <<>> => (r[1] # " " /\ r[Len(r)] # " ")

TextEvents == {i \in DOMAIN lay.log : lay.log[i].op = "text"}

\* Text that cleanText would return unchanged.
IsSanitized(t) == cleanText(t) = t

(* C3: in generateTextPDF every piece of user-supplied text has been through *)
(* cleanText before it is drawn: every piece of user text inside the text   *)
(* of a draw call is text that cleanText returns unchanged.  (Spec)         *)
C3_UserTextSanitized ==
    \A i \in TextEvents : \A k \in DOMAIN lay.log[i].user :
        IsSanitized(lay.log[i].user[k])

\* C4: for YYYY-MM with MM in 01..12, formatDate gives the month's
\* abbreviation, a space and YYYY, whatever the time zone of the environment.
C4_MonthYearInEveryZone ==
    call.fn = "formatDate" =>
        \A y \in Years, m \in 1..12 :
            call.arg.date = YearMonth(y, m) =>
                /\ call.res.main = MonthShort[m] \o <<" ">> \o YearDigits(y)
                /\ call.res.variant = MonthShort[m] \o <<" ">> \o YearDigits(y)

\* C5: for a non-empty input other than "present" that is no calendar date
\* once "-01" is appended, formatDate returns the input unchanged.
C5_UnparsableReturnedRaw ==
    ( /\ call.fn = "formatDate"
      /\ Truthy(call.arg.date)
      /\ toLowerCase(call.arg.date) # presentLower
      /\ ~ParseIsoDate(call.arg.date \o DayOneSuffix).valid )
    => (call.res.main = call.arg.date /\ call.res.variant = call.arg.date)

HasNameShape(n) ==
    Len(n) \in 2..99 /\ Range(n) \cap LetterSet # {}

\* local@domain.tld: one "@", no whitespace, something before the "@", and
\* after it a part with a dot that is neither its first nor its last
\* character.
HasEmailShape(e) ==
    /\ Cardinality({i \in DOMAIN e : e[i] = "@"}) = 1
    /\ Range(e) \cap WhiteSpace = {}
    /\ LET at == CHOOSE i \in DOMAIN e : e[i] = "@"
       IN /\ at > 1
          /\ \E j \in (at + 2)..(Len(e) - 1) : e[j] = "."

AsString(v) == IF IsString(v) THEN v ELSE <<>>

\* C6: validateReference gives the placeholder name exactly when the name is
\* missing or its cleaned form is no valid name, and the name as given
\* otherwise; a given email is emptied exactly when its cleaned form is no
\* valid email, and is otherwise left as given; title, company, relationship
\* and phone are the cleaned originals (a missing field stays empty).
C6_ValidateReference ==
    call.fn = "validateReference" =>
        LET ref == call.arg
            out == call.res
            badName == ~Truthy(ref.name) \/ ~HasNameShape(cleanText(ref.name))
        IN /\ badName => out.name = PlaceholderName
           /\ ~badName => out.name = ref.name
           /\ Truthy(ref.email) =>
                 (~Truthy(out.email) <=> ~HasEmailShape(cleanText(ref.email)))
           /\ (~Truthy(ref.email) \/ HasEmailShape(cleanText(ref.email)))
                 => out.email = ref.email
           /\ AsString(out.title) = cleanText(ref.title)
           /\ AsString(out.company) = cleanText(ref.company)
           /\ AsString(out.relationship) = cleanText(ref.relationship)
           /\ AsString(out.phone) = cleanText(ref.phone)

\* A reference whose name is replaced, whose email is dropped and whose
\* title, company and phone are changed by the cleaning.
C6_Witness ==
    /\ call.fn = "validateReference"
    /\ Truthy(call.arg.name) /\ call.res.name = PlaceholderName
    /\ Truthy(call.arg.email) /\ call.res.email = Undefined
    /\ Truthy(call.res.title) /\ call.res.title # call.arg.title
    /\ Truthy(call.res.company) /\ call.res.company # call.arg.company
    /\ Truthy(call.res.phone) /\ call.res.phone # call.arg.phone

\* C7: for the skills AI, to, a, early, JavaScript the pipeline keeps AI and
\* JavaScript and drops to, a and early.
C7_SkillsExample ==
    (call.fn = "skillsArray" /\ call.arg = MapSeq(SkillWords, PlainSkill)) =>
        /\ <<"A","I">> \in Range(call.res)
        /\ <<"J","a","v","a","S","c","r","i","p","t">> \in Range(call.res)
        /\ \A w \in {<<"t","o">>, <<"a">>, <<"e","a","r","l","y">>} :
              /\ w \notin Range(call.res)
              /\ capitalizeFirst(w) \notin Range(call.res)

IsAcronym(t) == Len(t) >= 2 /\ Range(t) \subseteq UpperSet
EndsInCad(t) == Len(t) >= 3 /\ toLowerCase(SubSeq(t, Len(t) - 2, Len(t))) = cadLower
HasInnerCapital(t) ==
    t # <<>> /\ t[1] \in UpperSet /\ \E k \in 2..Len(t) : t[k] \in UpperSet
NamesTechnology(t) ==
    \E w \in osNames \cup techNames :
        \E i \in DOMAIN t : \E j \in DOMAIN t :
            j - i + 1 = Len(w) /\ SubSeq(toLowerCase(t), i, j) = w

\* C8: isValidSkill holds exactly when the trimmed token has at least three
\* characters, is not a stoplist word whatever its case, and is technical
\* (acronym, ends in CAD, inner capital, names an OS or a technology) or
\* starts with a capital or has more than four characters.
C8_IsValidSkill ==
    call.fn = "isValidSkill" =>
        LET t == trim(call.arg)
        IN call.res <=>
              /\ Len(t) >= 3
              /\ toLowerCase(t) \notin excludeWords
              /\ \/ IsAcronym(t) \/ EndsInCad(t) \/ HasInnerCapital(t)
                 \/ NamesTechnology(t)
                 \/ t[1] \in UpperSet
                 \/ Len(t) > 4

\* A short lower-case token accepted only because it names a technology.
C8_Witness ==
    /\ call.fn = "isValidSkill"
    /\ call.res
    /\ Len(trim(call.arg)) \in 3..4
    /\ trim(call.arg)[1] \in LowerSet
    /\ call.arg # trim(call.arg)

\* C9: checkPageBreak(r) at cursor y adds exactly one page, resets the cursor
\* to the top margin and returns true when y + r is beyond the printable
\* bottom, and otherwise changes nothing and returns false; one call never
\* adds more than one page.
C9_CheckPageBreak ==
    call.fn = "checkPageBreak" =>
        \A r \in {call.res.main, call.res.variant} :
            IF call.arg.y + call.arg.requiredSpace > PageHeight - BottomReserve
            THEN /\ r.ret
                 /\ r.lay.pages = call.arg.pages + 1
                 /\ r.lay.yPosition = Margin
            ELSE /\ ~r.ret
                 /\ r.lay.pages = call.arg.pages
                 /\ r.lay.yPosition = call.arg.y

\* A request for more space than a whole page, which breaks once.
C9_Witness ==
    /\ call.fn = "checkPageBreak"
    /\ call.arg.requiredSpace > PageHeight
    /\ call.res.main.ret
    /\ call.res.main.lay.pages = call.arg.pages + 1
    /\ call.res.main.lay.yPosition = Margin

(* C10: in every run of generateTextPDF each draw of a heading, paragraph   *)
(* line, bullet line or record field line is made at the cursor after a     *)
(* checkPageBreak call with no cursor movement in between.  The hidden      *)
(* chunks of the job description are positioned apart from the cursor and   *)
(* are not counted.  (Spec)                                                 *)
C10_DrawsFollowCheck ==
    \A i \in TextEvents : lay.log[i].kind # "ats" => lay.log[i].fresh

\* The assignments to yPosition made outside checkPageBreak, so far.
MoveEvents == {i \in DOMAIN lay.log : lay.log[i].op = "move"}

(* C11: during a run of generateTextPDF every assignment to yPosition      *)
(* other than the reset of checkPageBreak sets it to a value greater than   *)
(* or equal to the value it had: within a page the cursor never moves up.   *)
(* (Spec)                                                                   *)
C11_CursorNeverDecreases ==
    \A i \in MoveEvents : lay.log[i].to >= lay.log[i].y

\* The events of the run so far with a given operation and kind.
EventsOf(op, kind) ==
    {i \in DOMAIN lay.log : lay.log[i].op = op /\ lay.log[i].kind = kind}

(* C12: for a resume whose only non-empty field is personal.fullName the    *)
(* main exporter draws the name, draws no section header, adds no page,     *)
(* and its run ends saved, with save called exactly once; no step of the    *)
(* run fails.  The job description is a string or absent, as the signature *)
(* of generateTextPDF declares.  (Spec)                                    *)
C12_NameOnlyExport ==
    (resumeData = NameOnlyResume /\ jobDescription # TruthyNonString) =>
        /\ EventsOf("text", "sectionHeader") = {}
        /\ lay.pages = 1
        /\ outcome \in {"pending", "saved"}
        /\ pc \notin {"start", "ats", "header"} =>
              \E i \in EventsOf("text", "name") :
                  lay.log[i].text = cleanText(resumeData.personal.fullName)
        /\ pc # "done" => EventsOf("save", "save") = {}
        /\ pc = "done" =>
              (outcome = "saved" /\ Cardinality(EventsOf("save", "save")) = 1)

\* The run on the name-only resume has ended.
C12_Witness ==
    /\ resumeData = NameOnlyResume
    /\ jobDescription # TruthyNonString
    /\ pc = "done"
    /\ outcome = "saved"
    /\ Cardinality(EventsOf("text", "name")) = 1

\* The titles of the section headers drawn so far.
HeadersDrawn ==
    {lay.log[i].text[1] : i \in EventsOf("text", "sectionHeader")}

(* C13: a run of the variant exporter that ends without an error has       *)
(* called save exactly once and has drawn the header of every non-empty    *)
(* section among projects, certifications, languages, interests and        *)
(* references, whatever the skills array holds.  (Spec2)                   *)
C13_VariantSavesAndRendersAll ==
    (pc = "done" /\ outcome \in {"saved", "returned"}) =>
        /\ Cardinality(EventsOf("save", "save")) = 1
        /\ Len(resumeData.projects) > 0 => "NOTABLE PROJECTS" \in HeadersDrawn
        /\ Len(resumeData.certifications) > 0 =>
              "PROFESSIONAL CERTIFICATIONS" \in HeadersDrawn
        /\ Len(resumeData.languages) > 0 => "LANGUAGES" \in HeadersDrawn
        /\ Len(resumeData.interests) > 0 =>
              "PROFESSIONAL INTERESTS" \in HeadersDrawn
        /\ Len(resumeData.references) > 0 =>
              "PROFESSIONAL REFERENCES" \in HeadersDrawn

\* The errors thrown inside the try block so far.
ThrowEvents == {i \in DOMAIN lay.log : lay.log[i].op = "throw"}

(* C14: when the resume data is missing or a step of the main exporter     *)
(* throws, the run ends rejected with the fixed generic error whatever     *)
(* error was thrown, and save has not been called.  (Spec)                 *)
C14_GenericErrorNoSave ==
    /\ ThrowEvents # {} =>
          /\ pc = "done"
          /\ outcome = GenericError
          /\ EventsOf("save", "save") = {}
    /\ resumeData = NoResume /\ pc = "done" => ThrowEvents # {}
    /\ outcome \in {"pending", "saved", GenericError}

\* A run has thrown a TypeError in the projects block after drawing text.
C14_Witness ==
    /\ pc = "done"
    /\ \E i \in ThrowEvents : lay.log[i].kind = TypeErrorNoTrim
    /\ EventsOf("text", "project.name") # {}
    /\ outcome = GenericError

(* C15: when personal.fullName is empty, a step of handleDownloadPDF shows *)
(* an error, does not invoke the exporter and changes nothing else of the  *)
(* builder.  (SpecBuilder)                                                 *)
C15_NoNameNoExport ==
    [][(handleDownloadPDF /\ ~Truthy(resumeData.personal.fullName)) =>
          /\ builder'.toast.kind = "error"
          /\ builder'.toast.by = "handleDownloadPDF"
          /\ lay' = lay
          /\ outcome' = outcome
          /\ resumeData' = resumeData
          /\ jobDescription' = jobDescription
          /\ world' = world
          /\ [builder' EXCEPT !.toast = NoToast]
               = [builder EXCEPT !.toast = NoToast]]_vars

\* A download was refused for want of a name, and no exporter run exists.
C15_Witness ==
    /\ pc = "builder"
    /\ ~Truthy(resumeData.personal.fullName)
    /\ builder.toast = Toast("error", "handleDownloadPDF",
                             "Please add your name before downloading")
    /\ lay = NewLayout

\* The text events of the ATS embedding in the last exporter run.
AtsEvents == EventsOf("text", "ats")

(* C17: after a download that succeeded while the builder held a job       *)
(* description, the exporter has run the ATS embedding: the document holds *)
(* the text of the job description.  (SpecBuilder)                         *)
C17_DownloadEmbedsJobDescription ==
    (/\ pc = "builder"
     /\ builder.toast = Toast("success", "handleDownloadPDF",
                              "ATS-optimized PDF downloaded with hidden keywords"))
        => AtsEvents # {}


\* The first step of any of the seven AI handlers.
AIHandlerStarts ==
    \/ handleAIOptimize
    \/ generateAIDescription
    \/ generateAICourses
    \/ generateProfessionalInterests
    \/ generateAISummary
    \/ enhanceExistingSummary
    \/ generateSkillsWithAI

\* C16: with an empty API key, every AI handler (handleAIOptimize,
\* generateAIDescription, generateAICourses, generateProfessionalInterests,
\* generateAISummary, enhanceExistingSummary, generateSkillsWithAI) reports
\* an error and returns: no remote request is issued, no 'generating' flag
\* is set, and the document and the state of the forms are unchanged.
C16_NoKeyNoRequest ==
    [][(AIHandlerStarts /\ ~Truthy(builder.apiKey)) =>
          /\ builder'.toast.kind = "error"
          /\ builder'.toast.by \in AIHandlers
          /\ world' = world
          /\ GeneratingFlags(builder') = GeneratingFlags(builder)
          /\ resumeData' = resumeData
          /\ builder'.educations = builder.educations]_vars

\* An AI handler of the education form has been pressed on a card with a
\* degree while the key was empty, and the key guard has answered.
C16_Witness ==
    /\ ~Truthy(builder.apiKey)
    /\ builder.toast = NoApiKey("generateAIDescription",
                                "Please set your Gemini API key in Settings")
    /\ \E i \in DOMAIN builder.educations : Truthy(builder.educations[i].degree)
    /\ Truthy(resumeData.personal.fullName)


RECURSIVE ConcatAll(_)
ConcatAll(ss) == IF ss = <<>> THEN <<>> ELSE Head(ss) \o ConcatAll(Tail(ss))

\* The hidden text events of the ATS step, in the order they were drawn.
AtsDrawn(L) == SelectSeq(L.log, LAMBDA e : e.op = "text" /\ e.kind = "ats")

\* C18: the ATS embedding step splits the cleaned job description into
\* consecutive chunks: their concatenation in order is the cleaned text,
\* every chunk but the last has exactly 500 characters and the last has
\* between 1 and 500; chunk i (counted from 0) is drawn in column i mod 3;
\* and the step leaves the cursor yPosition where it was.
C18_AtsChunks ==
    call.fn = "embedJobDescription" =>
        LET drawn == AtsDrawn(call.res)
            n == Len(drawn)
        IN /\ ConcatAll([k \in 1..n |-> drawn[k].text]) = cleanText(call.arg.jd)
           /\ \A k \in 1..n :
                 /\ k < n => Len(drawn[k].text) = 500
                 /\ k = n => Len(drawn[k].text) \in 1..500
                 /\ drawn[k].x = Margin + ((k - 1) % 3) * 100
           /\ call.res.yPosition = call.arg.y
           /\ call.res.pages = call.arg.pages

\* A job description of 1501 cleaned characters has been embedded: three
\* full chunks and a fourth of one character, back in the first column.
C18_Witness ==
    /\ call.fn = "embedJobDescription"
    /\ Len(cleanText(call.arg.jd)) = 3 * 500 + 1
    /\ Len(AtsDrawn(call.res)) = 4
    /\ AtsDrawn(call.res)[4].x = Margin
    /\ call.arg.jd # cleanText(call.arg.jd)


\* Two records of the array carry the same id (0 is no id at all).
SharedId(records) ==
    \E i, j \in DOMAIN records :
        i < j /\ records[i].id # 0 /\ records[i].id = records[j].id

\* C20: in every state of the builder, no two records of one section array
\* (experience, education, projects, certifications, languages, references)
\* carry the same id, whatever sequence of load, form add, update and
\* remove, section update handlers, profile import and CV import led there.
C20_IdsDistinct ==
    \A s \in SectionArrays : ~SharedId(resumeData[s])


\* A non-empty array of records, and one of plain strings.
AllRecords(skills) == skills # <<>> /\ \A i \in DOMAIN skills : skills[i].obj
AllStrings(skills) == skills # <<>> /\ \A i \in DOMAIN skills : ~skills[i].obj

\* C19: saving a resume and loading it back keeps the shape of the skills.
\* A non-empty array of {name, level, category} records comes back as
\* records with the same names, with each non-empty level and category as
\* it was, and with 'Intermediate' for an empty level and 'Technical' for
\* an empty category.  A non-empty array of plain strings comes back as
\* the same strings in order, without the empty ones.
C19_SkillsRoundTrip ==
    call.fn = "saveAndLoad" =>
        /\ AllRecords(call.arg) =>
              /\ AllRecords(call.res)
              /\ Len(call.res) = Len(call.arg)
              /\ \A i \in DOMAIN call.arg :
                    /\ call.res[i].name = call.arg[i].name
                    /\ call.res[i].level =
                          IF call.arg[i].level = <<>> THEN Intermediate
                          ELSE call.arg[i].level
                    /\ call.res[i].category =
                          IF call.arg[i].category = <<>> THEN Technical
                          ELSE call.arg[i].category
        /\ AllStrings(call.arg) =>
              /\ \A i \in DOMAIN call.res : ~call.res[i].obj
              /\ call.res = SelectSeq(call.arg, LAMBDA skill : skill.name # <<>>)

\* C19 as stated: the records come back with the same name, level and
\* category for every item, and the strings as they were.
C19_SkillsPreserved ==
    call.fn = "saveAndLoad" =>
        /\ AllRecords(call.arg) => call.res = call.arg
        /\ AllStrings(call.arg) => call.res = call.arg

\* Two records were saved and loaded, one complete and one with an empty
\* level, which came back as 'Intermediate'.
C19_Witness ==
    /\ call.fn = "saveAndLoad"
    /\ AllRecords(call.arg)
    /\ Len(call.arg) = 2
    /\ call.arg[1].level = <<"E","x","p","e","r","t">>
    /\ call.res[1] = call.arg[1]
    /\ call.arg[2].level = <<>>
    /\ call.res[2].level = Intermediate


\* The row holds null where loadResumeData reads a property: an item of a
\* section array, the first skill or an item of an enhanced skills array,
\* or a personal_info that parses to null.
NullInRow(row) ==
    \/ row.personal_info.kind = "null"
    \/ \E s \in {"experience", "education", "skills"} :
          HasNull(arrayOf(row[s]))

\* C21: whatever the shape of the persisted record (a section that is not
\* an array, records with missing fields, null inside a section array, a
\* personal_info that does not parse or parses to null), loadResumeData
\* raises nothing and reports no failure.
C21_LoadReportsNoFailure ==
    ~(builder.toast.by = "loadResumeData" /\ builder.toast.kind = "error")

\* Without null in the row the load coerces: a column that is not an array
\* comes back empty and a missing field comes back as the empty string.
LoadCoercesWithoutNull ==
    (~NullInRow(world.stored) /\ resumeData # EmptyResume) =>
        /\ builder.toast = NoToast
        /\ ~world.stored.experience.isArray => resumeData.experience = <<>>
        /\ world.stored.experience = AnArray(<<FieldlessExperience>>) =>
              resumeData.experience[1].company = <<>>
        /\ world.stored.personal_info.kind \in {"unparsable", "absent"} =>
              resumeData.personal.fullName = <<>>


\* The skills drawn at the horizontal position x, in the order drawn.
SkillsDrawnAt(L, x) ==
    LET events == SelectSeq(L.log, LAMBDA e :
                      e.op = "text" /\ e.kind = "skill" /\ e.x = x)
    IN [k \in DOMAIN events |-> events[k].user[1]]

Homogeneous(skills) ==
    \A i, j \in DOMAIN skills : skills[i].obj = skills[j].obj

\* C23: in every state of the page the skills array of the document is
\* homogeneous: after the handlers of the skills form, the job description
\* parser, the profile import and the CV import, called with plain strings.
C23_SkillsHomogeneous == Homogeneous(resumeData.skills)

\* C28: once toggleEnhancedMode has run and the effect has run on the array
\* it emitted, isEnhancedMode is the negation of what the handler found; and
\* the array the next addSkill emits has the shape of the new mode.
C28_ToggleNegates ==
    LET form == builder.skillsForm
    IN /\ (form.last.op = "toggleEnhancedMode" /\ form.last.array = "passed")
            => form.isEnhancedMode = ~form.last.was
       /\ (form.last.op = "addSkill" /\ form.last.after = "toggleEnhancedMode"
           /\ form.last.array = "emitted")
            => IF form.last.was THEN AllStrings(resumeData.skills)
               ELSE AllRecords(resumeData.skills)


\* A field a record does not have reads as the empty text.
FieldOr(record, field) ==
    IF field \in DOMAIN record THEN record[field] ELSE <<>>

\* Two documents with the same records, field by field.
SameRecords(a, b) ==
    /\ Len(a) = Len(b)
    /\ \A i \in DOMAIN a : \A field \in DOMAIN a[i] \cup DOMAIN b[i] :
          FieldOr(a[i], field) = FieldOr(b[i], field)
SameDocument(a, b) ==
    /\ a.personal = b.personal
    /\ a.skills = b.skills
    /\ a.interests = b.interests
    /\ \A section \in SectionArrays : SameRecords(a[section], b[section])

\* C27: a document saved and loaded back is the same document: every field
\* of every record is preserved, the description, the courses and the
\* honors of an education record included.
C27_SaveLoadIdentity ==
    call.fn = "saveAndLoadDocument" => SameDocument(call.res, call.arg)


\* The answer of a generation has been applied in this step.
GenerationApplied(handlers) ==
    /\ Len(world'.pending) < Len(world.pending)
    /\ builder'.toast.kind = "success"
    /\ builder'.toast.by \in handlers

\* The education records of the form and of the document after the step
\* are those before it, but for the description and the courses.
EducationEditsKept(before, after) ==
    /\ Len(after) = Len(before)
    /\ \A i \in DOMAIN before :
          [after[i] EXCEPT !.description = before[i].description,
                           !.courses = before[i].courses] = before[i]

\* C25: when the result of an AI generation is applied, the form data is
\* the latest form data with only the generated field changed: the edits
\* made between the request and the answer are kept.
C25_EditsRetained ==
    [][/\ GenerationApplied({"generateAISummary", "enhanceExistingSummary"})
          => resumeData' = [resumeData EXCEPT !.personal.summary =
                                                resumeData'.personal.summary]
       /\ GenerationApplied({"generateAIDescription", "generateAICourses"})
          => /\ EducationEditsKept(builder.educations, builder'.educations)
             /\ EducationEditsKept(resumeData.education, resumeData'.education)
       /\ GenerationApplied({"generateProfessionalInterests"})
          => /\ Len(resumeData'.interests) >= Len(resumeData.interests)
             /\ SubSeq(resumeData'.interests, 1, Len(resumeData.interests))
                  = resumeData.interests]_vars


\* C24: saving is an upsert: whatever the saves of a session, one issued
\* before the answer to another included, at most one record is created.
C24_AtMostOneInsert == world.inserts <= 1

\* C26: once no load is in flight, the page holds the record of the id
\* parameter X: resumeId is X when the record X exists, and otherwise
\* neither the id nor the data of an earlier record; a save called then
\* updates no record other than X.  (Sessions that created no record and
\* whose queries all returned without an error.)
C26_StateMatchesParam ==
    LET X == builder.resumeIdParam
    IN /\ (X # 0 /\ world.inserts = 0 /\ ~world.failed
           /\ world.loading = <<>> /\ ~builder.effect)
            => IF world.table[X] # NoResume
               THEN builder.resumeId = X
               ELSE builder.resumeId = 0 /\ resumeData = EmptyResume
       /\ \A i \in DOMAIN world.saving :
            LET save == world.saving[i]
            IN (save.settled /\ save.param # 0 /\ ~save.insert /\ ~world.failed)
                  => save.id = save.param

\* C30: a load started for the signed-in user, whose query returns, ends
\* with isDataLoaded true, whatever the answer and however loads overlap.
C30_EventuallyLoaded == (~builder.isDataLoaded) ~> builder.isDataLoaded

\* Every load of the session has been answered, the last answers being
\* caught errors, and the page shows the forms.
C30_Witness ==
    /\ world.loads = MaxLoads
    /\ world.loading = <<>>
    /\ builder.toast.by = "loadResumeData"
    /\ builder.resumeIdParam = 3
    /\ builder.resumeId = 3
    /\ builder.isDataLoaded


\* The page breaks of the run so far, and the draw that follows an event.
BreakEvents ==
    {i \in DOMAIN lay.log : lay.log[i].op = "check" /\ lay.log[i].ret}
NextDraw(i) ==
    {k \in TextEvents : k > i /\ \A j \in TextEvents : j > i => k <= j}

\* C29: in every run of generateTextPDF each text is drawn at a vertical
\* position no greater than the printable bottom of its page, and the draw
\* that follows a page break is made at the cursor the break has reset,
\* not at a position kept from the page before.  (Spec)
C29_DrawsWithinPage ==
    /\ \A i \in TextEvents : lay.log[i].y <= PageHeight - BottomReserve
    /\ \A i \in BreakEvents : \A k \in NextDraw(i) :
          lay.log[k].y = lay.log[k].to

====
